---- MODULE Spec2Model ----
(***************************************************************************)
(* Acceleration-structure, ray tracing pipeline and frame-dispatch layer   *)
(* of vk_raytracing_tutorial_KHR:                                          *)
(*   - HelloVulkan of ray_tracing_gltf, driven by its main()               *)
(*   - the Raytracer class (raytrace.cpp), driven by a client that calls   *)
(*     its operations in the order main() of ray_tracing_gltf uses         *)
(*   - main() of ray_tracing_ao                                            *)
(* Indices (stage, group, BLAS, hit-group) keep the 0-based values of the  *)
(* code; element i of a std::vector is element i+1 of the sequence.        *)
(***************************************************************************)
EXTENDS Integers, Sequences, FiniteSets, TLC

VARIABLES
  app,               \* which program runs: "gltf", "raytracer", "ao"
  pc,                \* position of main() / of the client
  models,            \* Raytracer client: std::vector<ObjModel>
  instances,         \* Raytracer client: std::vector<ObjInstance>
  implicitObj,       \* Raytracer client: ImplInst
  m_gltfScene,       \* HelloVulkan: nvh::GltfScene (m_primMeshes, m_nodes)
  m_rtBuilder,       \* nvvk::RaytracingBuilderKHR
  m_rtShaderGroups,  \* std::vector<vk::RayTracingShaderGroupCreateInfoKHR>
  rayPipelineInfo,   \* the create info handed to the pipeline and to the SBT
  m_rtPipeline,      \* [pipeline, pushConstantRanges, setLayouts, log]
  m_sbtWrapper,      \* nvvk::SBTWrapper: group indices of the four regions
  m_rtDescSet,       \* ray tracing descriptor set
  m_descSet,         \* scene descriptor set
  m_offscreenColor,  \* offscreen colour image (the output image)
  m_postDescSet,     \* post-processing descriptor set
  m_size,            \* output extent
  CameraManip,       \* [matrix, fov]
  refCam,            \* updateFrame's statics: [matrix, fov, init]
  m_rtPushConstants, \* [frame]
  useRaytracer,      \* main(): the "Ray Tracer mode" checkbox
  offscreenWriter,   \* which path recorded the write of the offscreen image last
  lastTrace,         \* the last traceRaysKHR recorded, with its push constants
  resetSinceTrace,   \* resetFrame ran after the last trace
  samplesSinceReset, \* ray_tracing_ao: dispatches recorded since main() called
                     \* resetFrame last: [valid, n]
  released,          \* how many times each handle has been handed to a destroy call
  nbDestroy,         \* calls of Raytracer::destroy / HelloVulkan::destroyResources
  nbSameImageWrites, \* updateRtDescriptorSet calls in a row with the image binding 1 holds
  mainResult,        \* main(): [returned, code, diagnostic] once main() has returned
  nbSubmitted,       \* main(): frames handed to submitFrame
  cmdBuf,            \* the commands the last raytrace / runCompute call recorded
  teardownLog,       \* the statements of the last teardown, in order
  do_snapshot,       \* main(): the snapshot request of the user interface
  queue,             \* the command buffers submitted and not yet completed
  hostRead,          \* upload_image: what the device was doing when the host read
  uploaded           \* upload_image: the extent of its writes into img

sceneVars == <<models, instances, m_gltfScene>>
pipeVars  == <<m_rtShaderGroups, rayPipelineInfo, m_rtPipeline, m_sbtWrapper>>
descVars  == <<m_rtDescSet, m_descSet, m_postDescSet>>
imageVars == <<m_offscreenColor, m_size>>
frameVars == <<CameraManip, refCam, m_rtPushConstants, useRaytracer>>
histVars  == <<offscreenWriter, lastTrace, resetSinceTrace, samplesSinceReset>>
teardownVars == <<released, nbDestroy, teardownLog>>
binding1Vars == <<nbSameImageWrites>>
exitVars == <<mainResult, nbSubmitted>>
snapVars == <<do_snapshot, queue, hostRead, uploaded>>
vars == <<app, pc, models, instances, implicitObj, m_gltfScene, m_rtBuilder,
          m_rtShaderGroups, rayPipelineInfo, m_rtPipeline, m_sbtWrapper,
          m_rtDescSet, m_descSet, m_offscreenColor, m_postDescSet, m_size,
          CameraManip, refCam, m_rtPushConstants, useRaytracer,
          offscreenWriter, lastTrace, resetSinceTrace, samplesSinceReset, released,
          nbDestroy,
          nbSameImageWrites, mainResult, nbSubmitted, cmdBuf, teardownLog,
          do_snapshot, queue, hostRead, uploaded>>

---------------------------------------------------------------------------
\* Bounds of the model
MaxGeometries == 2
MaxInstances == 2
MaxFrame == 3
MaxImages == 2
MaxDestroy == 2
MaxSameUpdates == 2
MaxTlasBuilds == 2
MaxPipelines == 2
MaxInFlight == 2
MaxRowPadding == 1

\* Program constants
\* (~0U): all 32 bits set, written as the signed reading of that bit pattern
VK_SHADER_UNUSED_KHR == -1
ResetFrameValue == -1
MaxRecursionDepth == 2
SAMPLE_WIDTH == 640
SAMPLE_HEIGHT == 480
AO_SAMPLE_WIDTH == 1280
AO_SAMPLE_HEIGHT == 720
\* bytes of a texel of VK_FORMAT_R32G32B32A32_SFLOAT, sizeof(float), and the
\* bytes img holds for a pixel
TexelBytes == 16
FloatBytes == 4
ImgChannels == 4

\* Input values
CamMatrices == {1, 2}
ZeroMatrix == 0
Fovs == {45, 60}
Extents == {<<SAMPLE_WIDTH, SAMPLE_HEIGHT>>, <<800, 600>>}
\* the models the client loaded: model i has its own buffers and counts; the index
\* count of every other model is no multiple of 3
ObjModels(n) ==
  [i \in 1..n |-> [ vertexBuffer |-> 10 * i, indexBuffer |-> 10 * i + 1,
                    nbVertices |-> 5 * i, nbIndices |-> 3 * i + 4 * (i % 2) ]]
ImplicitSizes == {0, 10}

SeqsUpTo(S, n) == UNION { [1..k -> S] : k \in 0..n }
Indices0(s) == 0..(Len(s) - 1)
At0(s, i) == s[i + 1]

---------------------------------------------------------------------------
\* Geometry adapters

\* mutant: the build range counts indices, not triangles
objectToVkGeometryKHR_countsIndices(model) ==
  [ geometryType    |-> "triangles",
    vertexData      |-> model.vertexBuffer,
    indexData       |-> model.indexBuffer,
    aabbData        |-> 0,
    maxVertex       |-> model.nbVertices,
    flags           |-> "NoDuplicateAnyHitInvocation",
    firstVertex     |-> 0,
    primitiveCount  |-> model.nbIndices,
    primitiveOffset |-> 0,
    transformOffset |-> 0 ]

\* Raytracer::objectToVkGeometryKHR: one triangle geometry and its build range
objectToVkGeometryKHR(model) ==
  [ geometryType    |-> "triangles",
    vertexData      |-> model.vertexBuffer,
    indexData       |-> model.indexBuffer,
    aabbData        |-> 0,
    maxVertex       |-> model.nbVertices,
    flags           |-> "NoDuplicateAnyHitInvocation",
    firstVertex     |-> 0,
    primitiveCount  |-> model.nbIndices \div 3,
    primitiveOffset |-> 0,
    transformOffset |-> 0 ]

\* Raytracer::implicitToVkGeometryKHR: one AABB geometry holding all implicit objects
implicitToVkGeometryKHR(impl) ==
  [ geometryType    |-> "aabbs",
    vertexData      |-> 0,
    indexData       |-> 0,
    aabbData        |-> impl.implBuf,
    maxVertex       |-> 0,
    flags           |-> "NoDuplicateAnyHitInvocation",
    firstVertex     |-> 0,
    primitiveCount  |-> impl.objImpl,
    primitiveOffset |-> 0,
    transformOffset |-> 0 ]

\* HelloVulkan::primitiveToGeometry: all primitives share the scene's buffers
primitiveToGeometry(prim, vertexBuffer, indexBuffer) ==
  [ geometryType    |-> "triangles",
    vertexData      |-> vertexBuffer,
    indexData       |-> indexBuffer,
    aabbData        |-> 0,
    maxVertex       |-> prim.vertexCount,
    flags           |-> "NoDuplicateAnyHitInvocation",
    firstVertex     |-> prim.vertexOffset,
    primitiveCount  |-> prim.indexCount \div 3,
    primitiveOffset |-> prim.firstIndex * 4,
    transformOffset |-> 0 ]

---------------------------------------------------------------------------
\* Acceleration structures

\* mutant: the loop over the models stops one short
Raytracer_allBlas_dropLast(ms, impl) ==
  LET n == IF Len(ms) > 0 THEN Len(ms) - 1 ELSE 0
      tri == [i \in 1..n |-> objectToVkGeometryKHR(ms[i])]
  IN  IF impl.objImpl # 0 THEN Append(tri, implicitToVkGeometryKHR(impl)) ELSE tri

\* Raytracer::createBottomLevelAS: the BlasInput list handed to buildBlas
Raytracer_allBlas(ms, impl) ==
  LET tri == [i \in 1..Len(ms) |-> objectToVkGeometryKHR(ms[i])]
  IN  IF impl.objImpl # 0 THEN Append(tri, implicitToVkGeometryKHR(impl)) ELSE tri

\* mutant: the id recorded is the size of the list, not its last index
Raytracer_implicitBlasId_size(allBlas) == Len(allBlas)

\* Raytracer::createBottomLevelAS: implicitObj.blasId = allBlas.size() - 1
Raytracer_implicitBlasId(allBlas) == Len(allBlas) - 1

\* HelloVulkan::createBottomLevelAS: the BlasInput list handed to buildBlas
HelloVulkan_allBlas(scene) ==
  [i \in 1..Len(scene.m_primMeshes) |->
     primitiveToGeometry(scene.m_primMeshes[i], scene.vertexBuffer, scene.indexBuffer)]

\* mutant: every instance refers to BLAS 0
Raytracer_tlas_blasZero(insts, impl) ==
  LET tri == [i \in 1..Len(insts) |->
                [ transform        |-> insts[i].transform,
                  instanceCustomId |-> i - 1,
                  blasId           |-> 0,
                  hitGroupId       |-> 0,
                  flags            |-> "TriangleFacingCullDisable" ]]
  IN  IF impl.objImpl # 0
      THEN Append(tri, [ transform        |-> impl.transform,
                         instanceCustomId |-> impl.blasId,
                         blasId           |-> impl.blasId,
                         hitGroupId       |-> 1,
                         flags            |-> "TriangleFacingCullDisable" ])
      ELSE tri

\* mutant: the implicit instance uses the first hit group like the others
Raytracer_tlas_hitZero(insts, impl) ==
  LET tri == [i \in 1..Len(insts) |->
                [ transform        |-> insts[i].transform,
                  instanceCustomId |-> i - 1,
                  blasId           |-> insts[i].objIndex,
                  hitGroupId       |-> 0,
                  flags            |-> "TriangleFacingCullDisable" ]]
  IN  IF impl.objImpl # 0
      THEN Append(tri, [ transform        |-> impl.transform,
                         instanceCustomId |-> impl.blasId,
                         blasId           |-> impl.blasId,
                         hitGroupId       |-> 0,
                         flags            |-> "TriangleFacingCullDisable" ])
      ELSE tri

\* Raytracer::createTopLevelAS: the instance list handed to buildTlas
Raytracer_tlas(insts, impl) ==
  LET tri == [i \in 1..Len(insts) |->
                [ transform        |-> insts[i].transform,
                  instanceCustomId |-> i - 1,
                  blasId           |-> insts[i].objIndex,
                  hitGroupId       |-> 0,
                  flags            |-> "TriangleFacingCullDisable" ]]
  IN  IF impl.objImpl # 0
      THEN Append(tri, [ transform        |-> impl.transform,
                         instanceCustomId |-> impl.blasId,
                         blasId           |-> impl.blasId,
                         hitGroupId       |-> 1,
                         flags            |-> "TriangleFacingCullDisable" ])
      ELSE tri

\* HelloVulkan::createTopLevelAS: the instance list handed to buildTlas
HelloVulkan_tlas(scene) ==
  [i \in 1..Len(scene.m_nodes) |->
     [ transform        |-> scene.m_nodes[i].worldMatrix,
       instanceCustomId |-> scene.m_nodes[i].primMesh,
       blasId           |-> scene.m_nodes[i].primMesh,
       hitGroupId       |-> 0,
       flags            |-> "TriangleFacingCullDisable" ]]

\* m_rtBuilder.buildBlas(allBlas, flags): one BLAS per input, in input order
buildBlas(builder, allBlas) ==
  [builder EXCEPT !.blas = allBlas, !.nbBuildBlas = @ + 1]

\* every instance refers to a BLAS the builder holds
ValidInstances(builder, tlas) ==
  \A i \in 1..Len(tlas) : tlas[i].blasId \in Indices0(builder.blas)

\* m_rtBuilder.buildTlas(tlas, flags): a new TLAS replaces the previous one.
\* built = FALSE: the build did not complete (the process stopped in it).
buildTlas(builder, tlas, built) ==
  [builder EXCEPT !.tlasInstances = tlas,
                  !.nbBuildTlas = @ + 1,
                  !.tlas = IF built THEN builder.nbBuildTlas + 1 ELSE @]

\* m_rtBuilder.getAccelerationStructure()
getAccelerationStructure(builder) == builder.tlas

---------------------------------------------------------------------------
\* Ray tracing pipeline: shader stages and shader groups

\* vk::RayTracingShaderGroupCreateInfoKHR{type, UNUSED, UNUSED, UNUSED, UNUSED}
ShaderGroup(type) ==
  [ type               |-> type,
    generalShader      |-> VK_SHADER_UNUSED_KHR,
    closestHitShader   |-> VK_SHADER_UNUSED_KHR,
    anyHitShader       |-> VK_SHADER_UNUSED_KHR,
    intersectionShader |-> VK_SHADER_UNUSED_KHR ]

\* vk::PipelineShaderStageCreateInfo{{}, stage, module, "main"}
ShaderStage(stage, module) == [stage |-> stage, module |-> module]

\* mutant: the shadow-miss group is declared after the first hit group
Raytracer_rayPipelineInfo_missAfterHit(groups0) ==
  LET s1 == <<ShaderStage("raygen", "raygenSM")>>
      g1 == Append(groups0, [ShaderGroup("General") EXCEPT !.generalShader = 0])
      s2 == Append(s1, ShaderStage("miss", "missSM"))
      g2 == Append(g1, [ShaderGroup("General") EXCEPT !.generalShader = Len(s1)])
      hg == [[ShaderGroup("TrianglesHitGroup")
                EXCEPT !.closestHitShader = Len(s2)] EXCEPT !.anyHitShader = Len(s2) + 1]
      s4 == s2 \o <<ShaderStage("closestHit", "chitSM"), ShaderStage("anyHit", "ahitSM")>>
      g3 == Append(g2, hg)
      s5 == Append(s4, ShaderStage("miss", "shadowmissSM"))
      g4 == Append(g3, [ShaderGroup("General") EXCEPT !.generalShader = Len(s4)])
  IN  [stages |-> s5, groups |-> g4, maxPipelineRayRecursionDepth |-> MaxRecursionDepth]

\* Raytracer::createRtPipeline: the stages (a local vector) and the groups
\* (pushed onto the member m_rtShaderGroups, groups0 on entry) of rayPipelineInfo
Raytracer_rayPipelineInfo(groups0) ==
  LET s0  == <<>>
      \* Raygen
      rg  == [ShaderGroup("General") EXCEPT !.generalShader = Len(s0)]
      s1  == Append(s0, ShaderStage("raygen", "raygenSM"))
      g1  == Append(groups0, rg)                                    \* 0
      \* Miss
      mg1 == [ShaderGroup("General") EXCEPT !.generalShader = Len(s1)]
      s2  == Append(s1, ShaderStage("miss", "missSM"))
      g2  == Append(g1, mg1)                                        \* 1
      \* Shadow Miss
      mg2 == [mg1 EXCEPT !.generalShader = Len(s2)]
      s3  == Append(s2, ShaderStage("miss", "shadowmissSM"))
      g3  == Append(g2, mg2)                                        \* 2
      \* Hit Group0 - Closest Hit + AnyHit
      hgA == [ShaderGroup("TrianglesHitGroup") EXCEPT !.closestHitShader = Len(s3)]
      s4  == Append(s3, ShaderStage("closestHit", "chitSM"))
      hgB == [hgA EXCEPT !.anyHitShader = Len(s4)]
      s5  == Append(s4, ShaderStage("anyHit", "ahitSM"))
      g4  == Append(g3, hgB)                                        \* 3
      \* Hit Group1 - Closest Hit + Intersection (procedural)
      pgA == [ShaderGroup("ProceduralHitGroup") EXCEPT !.closestHitShader = Len(s5)]
      s6  == Append(s5, ShaderStage("closestHit", "chit2SM"))
      pgB == [pgA EXCEPT !.anyHitShader = Len(s6)]
      s7  == Append(s6, ShaderStage("anyHit", "ahit2SM"))
      pgC == [pgB EXCEPT !.intersectionShader = Len(s7)]
      s8  == Append(s7, ShaderStage("intersection", "rintSM"))
      g5  == Append(g4, pgC)                                        \* 4
      \* Callable shaders
      cg0 == [ShaderGroup("General") EXCEPT !.generalShader = Len(s8)]
      s9  == Append(s8, ShaderStage("callable", "call0"))
      g6  == Append(g5, cg0)                                        \* 5
      cg1 == [cg0 EXCEPT !.generalShader = Len(s9)]
      s10 == Append(s9, ShaderStage("callable", "call1"))
      g7  == Append(g6, cg1)                                        \* 6
      cg2 == [cg1 EXCEPT !.generalShader = Len(s10)]
      s11 == Append(s10, ShaderStage("callable", "call2"))
      g8  == Append(g7, cg2)                                        \* 7
  IN  [stages |-> s11, groups |-> g8, maxPipelineRayRecursionDepth |-> MaxRecursionDepth]

\* mutant: the closest-hit slot is set after the stage was pushed
HelloVulkan_rayPipelineInfo_slotAfterPush(groups0) ==
  LET s1 == <<ShaderStage("raygen", "raygenSM")>>
      g1 == Append(groups0, [ShaderGroup("General") EXCEPT !.generalShader = 0])
      s2 == Append(s1, ShaderStage("miss", "missSM"))
      g2 == Append(g1, [ShaderGroup("General") EXCEPT !.generalShader = Len(s1)])
      s3 == Append(s2, ShaderStage("miss", "shadowmissSM"))
      g3 == Append(g2, [ShaderGroup("General") EXCEPT !.generalShader = Len(s2)])
      s4 == Append(s3, ShaderStage("closestHit", "chitSM"))
      g4 == Append(g3, [ShaderGroup("TrianglesHitGroup") EXCEPT !.closestHitShader = Len(s4)])
  IN  [stages |-> s4, groups |-> g4, maxPipelineRayRecursionDepth |-> MaxRecursionDepth]

\* mutant: the ray generation shader is declared with the miss stage flag
HelloVulkan_rayPipelineInfo_raygenAsMiss(groups0) ==
  LET s1 == <<ShaderStage("miss", "raygenSM")>>
      g1 == Append(groups0, [ShaderGroup("General") EXCEPT !.generalShader = 0])
      s2 == Append(s1, ShaderStage("miss", "missSM"))
      g2 == Append(g1, [ShaderGroup("General") EXCEPT !.generalShader = Len(s1)])
      s3 == Append(s2, ShaderStage("miss", "shadowmissSM"))
      g3 == Append(g2, [ShaderGroup("General") EXCEPT !.generalShader = Len(s2)])
      s4 == Append(s3, ShaderStage("closestHit", "chitSM"))
      g4 == Append(g3, [ShaderGroup("TrianglesHitGroup") EXCEPT !.closestHitShader = Len(s3)])
  IN  [stages |-> s4, groups |-> g4, maxPipelineRayRecursionDepth |-> MaxRecursionDepth]

\* HelloVulkan::createRtPipeline: the stages and groups of rayPipelineInfo
HelloVulkan_rayPipelineInfo(groups0) ==
  LET s0  == <<>>
      \* Raygen
      rg  == [ShaderGroup("General") EXCEPT !.generalShader = Len(s0)]
      s1  == Append(s0, ShaderStage("raygen", "raygenSM"))
      g1  == Append(groups0, rg)
      \* Miss
      mg1 == [ShaderGroup("General") EXCEPT !.generalShader = Len(s1)]
      s2  == Append(s1, ShaderStage("miss", "missSM"))
      g2  == Append(g1, mg1)
      \* Shadow Miss
      mg2 == [mg1 EXCEPT !.generalShader = Len(s2)]
      s3  == Append(s2, ShaderStage("miss", "shadowmissSM"))
      g3  == Append(g2, mg2)
      \* Hit Group - Closest Hit + AnyHit
      hg  == [ShaderGroup("TrianglesHitGroup") EXCEPT !.closestHitShader = Len(s3)]
      s4  == Append(s3, ShaderStage("closestHit", "chitSM"))
      g4  == Append(g3, hg)
  IN  [stages |-> s4, groups |-> g4, maxPipelineRayRecursionDepth |-> MaxRecursionDepth]

\* Raytracer::createRtPipeline: the push-constant ranges of the pipeline layout
Raytracer_pushConstantRanges ==
  << [stageFlags |-> {"raygen", "closestHit", "miss", "callable"}, offset |-> 0] >>

\* Raytracer::raytrace: the stage mask of cmdBuf.pushConstants
Raytracer_pushStages == {"raygen", "closestHit", "miss", "callable"}

\* HelloVulkan::createRtPipeline: the push-constant ranges of the pipeline layout
HelloVulkan_pushConstantRanges ==
  << [stageFlags |-> {"raygen", "closestHit", "miss"}, offset |-> 0] >>

\* mutant: the constants are pushed to the ray generation stage only
HelloVulkan_pushStages_raygenOnly == {"raygen"}

\* HelloVulkan::raytrace: the stage mask of cmdBuf.pushConstants
HelloVulkan_pushStages == {"raygen", "closestHit", "miss"}

\* what createRtPipeline does with shader modules, the pipeline and the table,
\* in the order of its statements
ModuleEvents(op, modules) == [i \in 1..Len(modules) |-> [op |-> op, module |-> modules[i]]]

\* mutant: the modules are destroyed before the shader binding table is built,
\* and the intersection shader's module is not destroyed
Raytracer_createRtPipelineLog_early ==
  ModuleEvents("createShaderModule",
               << "raygenSM", "missSM", "shadowmissSM", "chitSM", "ahitSM", "chit2SM",
                  "ahit2SM", "rintSM", "call0", "call1", "call2" >>)
  \o ModuleEvents("createRayTracingPipelineKHR", <<"">>)
  \o ModuleEvents("destroy",
                  << "raygenSM", "missSM", "shadowmissSM", "chitSM", "ahitSM", "chit2SM",
                     "ahit2SM", "call0", "call1", "call2" >>)
  \o ModuleEvents("m_sbtWrapper.create", <<"">>)

\* Raytracer::createRtPipeline
Raytracer_createRtPipelineLog ==
  ModuleEvents("createShaderModule",
               << "raygenSM", "missSM", "shadowmissSM", "chitSM", "ahitSM", "chit2SM",
                  "ahit2SM", "rintSM", "call0", "call1", "call2" >>)
  \o ModuleEvents("createRayTracingPipelineKHR", <<"">>)
  \o ModuleEvents("m_sbtWrapper.create", <<"">>)
  \o ModuleEvents("destroy",
                  << "raygenSM", "missSM", "shadowmissSM", "chitSM", "ahitSM", "chit2SM",
                     "ahit2SM", "rintSM", "call0", "call1", "call2" >>)

\* HelloVulkan::createRtPipeline
HelloVulkan_createRtPipelineLog ==
  ModuleEvents("createShaderModule", <<"raygenSM", "missSM", "shadowmissSM", "chitSM">>)
  \o ModuleEvents("createRayTracingPipelineKHR", <<"">>)
  \o ModuleEvents("m_sbtWrapper.create", <<"">>)
  \o ModuleEvents("destroy", <<"raygenSM", "missSM", "shadowmissSM", "chitSM">>)

\* The shader binding table region a group belongs to: a general group goes by
\* the stage of its general shader, every other group is a hit group.
GroupRegion(info, g) ==
  LET grp == At0(info.groups, g)
  IN  IF grp.type = "General"
      THEN IF grp.generalShader \in Indices0(info.stages)
           THEN LET st == At0(info.stages, grp.generalShader).stage
                IN  IF st \in {"raygen", "miss", "callable"} THEN st ELSE "none"
           ELSE "none"
      ELSE "hit"

\* m_sbtWrapper.create(m_rtPipeline, rayPipelineInfo): the group indices of the
\* raygen, miss, hit and callable regions, each in the order of the groups
SBTWrapper_create(info) ==
  LET idx == [g \in 1..Len(info.groups) |-> g - 1]
      Of(r) == SelectSeq(idx, LAMBDA g : GroupRegion(info, g) = r)
  IN  [raygen |-> Of("raygen"), miss |-> Of("miss"), hit |-> Of("hit"),
       callable |-> Of("callable")]

\* m_sbtWrapper.getRegions(): regions[0..3] = raygen, miss, hit, callable
getRegions(sbt) == <<sbt.raygen, sbt.miss, sbt.hit, sbt.callable>>

---------------------------------------------------------------------------
\* Frame counter

\* mutant: the counter is reset to 0
resetFrame_zero(pushC) == [pushC EXCEPT !.frame = 0]

\* HelloVulkan::resetFrame
resetFrame(pushC) == [pushC EXCEPT !.frame = ResetFrameValue]

\* mutant: the counter is incremented only when the camera did not change
updateFrame_incOnlyIfSame(ref, cam, pushC) ==
  LET r0 == IF ref.init THEN ref ELSE [ref EXCEPT !.fov = cam.fov, !.init = TRUE]
      changed == r0.matrix # cam.matrix \/ r0.fov # cam.fov
  IN  IF changed
      THEN [ref |-> [matrix |-> cam.matrix, fov |-> cam.fov, init |-> TRUE],
            pushC |-> resetFrame(pushC)]
      ELSE [ref |-> r0, pushC |-> [pushC EXCEPT !.frame = @ + 1]]

\* mutant: the counter is incremented before the camera is compared
updateFrame_resetAfterInc(ref, cam, pushC) ==
  LET r0 == IF ref.init THEN ref ELSE [ref EXCEPT !.fov = cam.fov, !.init = TRUE]
      changed == r0.matrix # cam.matrix \/ r0.fov # cam.fov
      p1 == [pushC EXCEPT !.frame = @ + 1]
      r1 == IF changed THEN [matrix |-> cam.matrix, fov |-> cam.fov, init |-> TRUE] ELSE r0
  IN  [ref |-> r1, pushC |-> IF changed THEN resetFrame(p1) ELSE p1]

\* mutant: a changed camera resets the counter and is not recorded
updateFrame_keepsRef(ref, cam, pushC) ==
  LET r0 == IF ref.init THEN ref ELSE [ref EXCEPT !.fov = cam.fov, !.init = TRUE]
      changed == r0.matrix # cam.matrix \/ r0.fov # cam.fov
      p1 == IF changed THEN resetFrame(pushC) ELSE pushC
  IN  [ref |-> r0, pushC |-> [p1 EXCEPT !.frame = @ + 1]]

\* mutant: the counter is reset whether or not the camera changed
updateFrame_alwaysReset(ref, cam, pushC) ==
  LET p1 == resetFrame(pushC)
  IN  [ref |-> [matrix |-> cam.matrix, fov |-> cam.fov, init |-> TRUE],
       pushC |-> [p1 EXCEPT !.frame = @ + 1]]

\* HelloVulkan::updateFrame.  ref holds the function's statics: refCamMatrix
\* (zero-initialised) and refFov (initialised from the camera on the first call).
updateFrame(ref, cam, pushC) ==
  LET r0 == IF ref.init THEN ref ELSE [ref EXCEPT !.fov = cam.fov, !.init = TRUE]
      changed == r0.matrix # cam.matrix \/ r0.fov # cam.fov
      p1 == IF changed THEN resetFrame(pushC) ELSE pushC
      r1 == IF changed THEN [matrix |-> cam.matrix, fov |-> cam.fov, init |-> TRUE] ELSE r0
  IN  [ref |-> r1, pushC |-> [p1 EXCEPT !.frame = @ + 1]]

\* one entry of the command log of raytrace: the statement, the frame counter
\* it produced or pushed (0 for the others) and the descriptor sets it binds
Cmd(cmd, frame, sets) == [cmd |-> cmd, frame |-> frame, sets |-> sets]

\* mutant: the constants are pushed before updateFrame runs
HelloVulkan_raytraceSteps_pushBeforeUpdate ==
  << "setConstants", "bindPipeline", "bindDescriptorSets", "pushConstants",
     "updateFrame", "traceRaysKHR" >>

\* HelloVulkan::raytrace: its statements in program order
HelloVulkan_raytraceSteps ==
  << "updateFrame", "setConstants", "bindPipeline", "bindDescriptorSets",
     "pushConstants", "traceRaysKHR" >>

\* Raytracer::raytrace: its statements in program order; the frame is copied
\* from sceneConstants with the other constants
Raytracer_raytraceSteps ==
  << "setConstants", "bindPipeline", "bindDescriptorSets", "pushConstants",
     "traceRaysKHR" >>

\* HelloVulkan::runCompute of ray_tracing_ao, the per-frame operation: the
\* camera is compared, the record filled, the pipeline and the set bound, the
\* record pushed and the dispatch issued
ao_runComputeSteps ==
  << "updateFrame", "setConstants", "bindPipeline", "bindDescriptorSets",
     "pushConstants", "dispatch" >>

\* the statements of raytrace run one after the other on st = [ref, cam, pushC,
\* sets, pushed, cmds]: updateFrame changes the counter and the reference
\* camera, pushConstants copies the record as it is at that point
RECURSIVE recordCommands(_, _)
recordCommands(steps, st) ==
  IF steps = <<>> THEN st
  ELSE LET step == Head(steps)
           u == updateFrame(st.ref, st.cam, st.pushC)
           st1 == IF step = "updateFrame"
                  THEN [st EXCEPT !.ref = u.ref, !.pushC = u.pushC,
                                  !.cmds = Append(@, Cmd(step, u.pushC.frame, <<>>))]
                  ELSE IF step = "bindDescriptorSets"
                  THEN [st EXCEPT !.cmds = Append(@, Cmd(step, 0, st.sets))]
                  ELSE IF step = "pushConstants"
                  THEN [st EXCEPT !.pushed = st.pushC,
                                  !.cmds = Append(@, Cmd(step, st.pushC.frame, <<>>))]
                  ELSE [st EXCEPT !.cmds = Append(@, Cmd(step, 0, <<>>))]
       IN  recordCommands(Tail(steps), st1)

---------------------------------------------------------------------------
\* Descriptor sets and the offscreen image

\* HelloVulkan::createOffscreenRender: the previous image is destroyed and a new
\* one of the current size is created; image handles count the images created
createOffscreenRender(color, size) == [image |-> color.image + 1, extent |-> size]

\* createRtDescriptorSet: bindings 0 (TLAS), 1 (output image), 2 (primitive info)
createRtDescriptorSet(builder, outputImage, primLookup) ==
  [ allocated |-> TRUE,
    tlas      |-> getAccelerationStructure(builder),
    image     |-> outputImage,
    primInfo  |-> primLookup ]

\* mutant: the write also covers binding 0, with a null acceleration structure
updateRtDescriptorSet_clearsTlas(descSet, outputImage) ==
  [descSet EXCEPT !.image = outputImage, !.tlas = 0]

\* updateRtDescriptorSet: binding 1 is written again, nothing else
updateRtDescriptorSet(descSet, outputImage) == [descSet EXCEPT !.image = outputImage]

\* HelloVulkan::updatePostDescriptorSet
updatePostDescriptorSet(color) == [image |-> color.image]

\* mutant: the grid is given as (height, width, 1)
TraceRecord_gridSwapped(pushC, stages, cam, size, sbt, descSet, color, prev) ==
  [ valid       |-> TRUE,
    frame       |-> pushC.frame,
    pushStages  |-> stages,
    cam         |-> cam,
    size        |-> size,
    regions     |-> getRegions(sbt),
    grid        |-> <<size[2], size[1], 1>>,
    tlas        |-> descSet.tlas,
    image       |-> descSet.image,
    imageExtent |-> IF descSet.image = color.image THEN color.extent ELSE <<0, 0>>,
    camChanged  |-> prev.valid /\ prev.cam # cam ]

\* the record of one traceRaysKHR command: the constants and the stage mask of
\* the pushConstants before it, the regions and the grid it is given, and what
\* the bound descriptor set refers to (the extent of a destroyed image is <<0, 0>>)
TraceRecord(pushC, stages, cam, size, sbt, descSet, color, prev) ==
  [ valid       |-> TRUE,
    frame       |-> pushC.frame,
    pushStages  |-> stages,
    cam         |-> cam,
    size        |-> size,
    regions     |-> getRegions(sbt),
    grid        |-> <<size[1], size[2], 1>>,
    tlas        |-> descSet.tlas,
    image       |-> descSet.image,
    imageExtent |-> IF descSet.image = color.image THEN color.extent ELSE <<0, 0>>,
    camChanged  |-> prev.valid /\ prev.cam # cam ]

---------------------------------------------------------------------------
\* Teardown

\* the objects Raytracer::destroy and the #VKRay part of destroyResources release
Handles == { "m_sbtWrapper", "m_rtBuilder", "m_rtDescPool", "m_rtDescSetLayout",
             "m_rtPipeline", "m_rtPipelineLayout", "m_rtSBTBuffer" }

\* m_device.destroy(handle): the handle is passed by value; a null handle is
\* ignored, any other value is handed to vkDestroy*, and the member keeps it
deviceDestroy(rel, h, created) ==
  IF created THEN [rel EXCEPT ![h] = @ + 1] ELSE rel

\* m_sbtWrapper.destroy(), m_rtBuilder.destroy(), m_alloc->destroy(buffer): the
\* owner releases what it holds and forgets it
ownerDestroy(rel, h, created) ==
  IF created /\ rel[h] = 0 THEN [rel EXCEPT ![h] = 1] ELSE rel

\* Raytracer::destroy, statement by statement
Raytracer_destroyed(rel, builder, descSet, pipeline) ==
  LET r1 == ownerDestroy(rel, "m_sbtWrapper", pipeline.pipeline # 0)
      r2 == ownerDestroy(r1, "m_rtBuilder", builder.nbBuildBlas > 0)
      r3 == deviceDestroy(r2, "m_rtDescPool", descSet.allocated)
      r4 == deviceDestroy(r3, "m_rtDescSetLayout", descSet.allocated)
      r5 == deviceDestroy(r4, "m_rtPipeline", pipeline.pipeline # 0)
      r6 == deviceDestroy(r5, "m_rtPipelineLayout", pipeline.pipeline # 0)
      r7 == ownerDestroy(r6, "m_rtSBTBuffer", FALSE)
  IN  r7

\* HelloVulkan::destroyResources, the #VKRay statements
HelloVulkan_destroyed(rel, builder, descSet, pipeline) ==
  LET r1 == ownerDestroy(rel, "m_rtBuilder", builder.nbBuildBlas > 0)
      r2 == ownerDestroy(r1, "m_sbtWrapper", pipeline.pipeline # 0)
      r3 == deviceDestroy(r2, "m_rtDescPool", descSet.allocated)
      r4 == deviceDestroy(r3, "m_rtDescSetLayout", descSet.allocated)
      r5 == deviceDestroy(r4, "m_rtPipeline", pipeline.pipeline # 0)
      r6 == deviceDestroy(r5, "m_rtPipelineLayout", pipeline.pipeline # 0)
  IN  r6

\* one statement of a teardown: op is how the object is released ("device":
\* m_device.destroy, "alloc": m_alloc.destroy, "owner": the object's own destroy,
\* "deinit": the allocator is de-initialised)
Stmt(op, obj) == [op |-> op, obj |-> obj]

\* mutant: the allocator is de-initialised first
HelloVulkan_destroyResourcesLog_deinitFirst ==
  << Stmt("deinit", "m_alloc"),
     Stmt("device", "m_graphicsPipeline"), Stmt("device", "m_pipelineLayout"),
     Stmt("alloc", "m_cameraMat"), Stmt("alloc", "m_offscreenColor"),
     Stmt("owner", "m_rtBuilder"), Stmt("owner", "m_sbtWrapper"),
     Stmt("device", "m_rtPipeline"), Stmt("device", "m_rtPipelineLayout") >>

\* HelloVulkan::destroyResources, statement by statement
HelloVulkan_destroyResourcesLog ==
  << Stmt("device", "m_graphicsPipeline"), Stmt("device", "m_pipelineLayout"),
     Stmt("device", "m_descPool"), Stmt("device", "m_descSetLayout"),
     Stmt("alloc", "m_cameraMat"),
     Stmt("alloc", "m_vertexBuffer"), Stmt("alloc", "m_normalBuffer"),
     Stmt("alloc", "m_uvBuffer"), Stmt("alloc", "m_indexBuffer"),
     Stmt("alloc", "m_materialBuffer"), Stmt("alloc", "m_matrixBuffer"),
     Stmt("alloc", "m_rtPrimLookup"),
     Stmt("alloc", "m_textures"),
     Stmt("device", "m_postPipeline"), Stmt("device", "m_postPipelineLayout"),
     Stmt("device", "m_postDescPool"), Stmt("device", "m_postDescSetLayout"),
     Stmt("alloc", "m_offscreenColor"), Stmt("alloc", "m_image_copy"),
     Stmt("alloc", "m_offscreenDepth"),
     Stmt("device", "m_offscreenRenderPass"), Stmt("device", "m_offscreenFramebuffer"),
     Stmt("owner", "m_rtBuilder"), Stmt("owner", "m_sbtWrapper"),
     Stmt("device", "m_rtDescPool"), Stmt("device", "m_rtDescSetLayout"),
     Stmt("device", "m_rtPipeline"), Stmt("device", "m_rtPipelineLayout"),
     Stmt("deinit", "m_alloc") >>

\* Raytracer::destroy, statement by statement; the allocator belongs to the caller
Raytracer_destroyLog ==
  << Stmt("owner", "m_sbtWrapper"), Stmt("owner", "m_rtBuilder"),
     Stmt("device", "m_rtDescPool"), Stmt("device", "m_rtDescSetLayout"),
     Stmt("device", "m_rtPipeline"), Stmt("device", "m_rtPipelineLayout"),
     Stmt("alloc", "m_rtSBTBuffer") >>

\* main(): the statements after the render loop: waitIdle, destroyResources
\* (its statements are body), helloVk.destroy, vkctx.deinit
main_cleanupLog(body) ==
  << Stmt("loopEnd", "main"), Stmt("waitIdle", "m_device") >> \o body \o
  << Stmt("call", "helloVk.destroy"), Stmt("call", "vkctx.deinit") >>

\* main(): return 0
ReturnedZero == [returned |-> TRUE, code |-> 0, diagnostic |-> FALSE, error |-> 0]

---------------------------------------------------------------------------
\* Initial states

NoCam == [matrix |-> ZeroMatrix, fov |-> 0]

\* ray_tracing_ao: main() has not called resetFrame
NoSamples == [valid |-> FALSE, n |-> 0]

\* main() is still running
NotReturned == [returned |-> FALSE, code |-> 0, diagnostic |-> FALSE, error |-> 0]

\* upload_image has not run
NoHostRead == [valid |-> FALSE, copy |-> "none"]
NoUpload ==
  [valid |-> FALSE, pitch |-> 0, height |-> 0, imgSize |-> 0, lastEnd |-> 0, heap |-> "ok"]

NoTrace ==
  [ valid |-> FALSE, frame |-> 0, cam |-> NoCam, size |-> <<0, 0>>,
    regions |-> <<>>, tlas |-> 0, image |-> 0, camChanged |-> FALSE,
    pushStages |-> {}, grid |-> <<0, 0, 0>>, imageExtent |-> <<0, 0>> ]

NoScene == [m_primMeshes |-> <<>>, m_nodes |-> <<>>, vertexBuffer |-> 0,
            indexBuffer |-> 0, rtPrimLookup |-> 0]

NoImplicit == [objImpl |-> 0, implBuf |-> 0, blasId |-> 0, transform |-> 0]

\* nvh::GltfScene lays the primitives out one after the other in the shared buffers
PrimMeshes(n) ==
  [i \in 1..n |-> [ firstIndex |-> 6 * (i - 1), vertexOffset |-> 4 * (i - 1),
                    indexCount |-> 6, vertexCount |-> 4, materialIndex |-> 0 ]]

\* node or instance i of a scene has its own transform, written i
WithTransforms(field, s) ==
  IF field = "primMesh"
  THEN [i \in 1..Len(s) |-> [primMesh |-> s[i], worldMatrix |-> i]]
  ELSE [i \in 1..Len(s) |-> [objIndex |-> s[i], transform |-> i]]

\* the scenes loadScene can produce: every node refers to a primitive of the scene
GltfScenes ==
  UNION { { [ m_primMeshes |-> PrimMeshes(n), m_nodes |-> WithTransforms("primMesh", ns),
              vertexBuffer |-> 50, indexBuffer |-> 51, rtPrimLookup |-> 52 ] :
            ns \in SeqsUpTo(0..(n - 1), MaxInstances) } :
          n \in 0..MaxGeometries }

\* the state common to the three programs before their ray tracing setup
InitCommon ==
  /\ m_rtBuilder = [blas |-> <<>>, nbBuildBlas |-> 0, tlasInstances |-> <<>>,
                    nbBuildTlas |-> 0, tlas |-> 0]
  /\ m_rtShaderGroups = <<>>
  /\ rayPipelineInfo = [stages |-> <<>>, groups |-> <<>>, maxPipelineRayRecursionDepth |-> 0]
  /\ m_rtPipeline = [pipeline |-> 0, pushConstantRanges |-> <<>>, setLayouts |-> <<>>,
                     log |-> <<>>]
  /\ m_sbtWrapper = [raygen |-> <<>>, miss |-> <<>>, hit |-> <<>>, callable |-> <<>>]
  /\ m_rtDescSet = [allocated |-> FALSE, tlas |-> 0, image |-> 0, primInfo |-> 0]
  /\ m_descSet = [written |-> FALSE, tlas |-> 0]
  /\ m_postDescSet = [image |-> 0]
  /\ CameraManip = [matrix |-> 1, fov |-> 60]
  /\ refCam = [matrix |-> ZeroMatrix, fov |-> 0, init |-> FALSE]
  /\ m_rtPushConstants = [frame |-> 0]
  /\ useRaytracer = TRUE
  /\ offscreenWriter = "none"
  /\ lastTrace = NoTrace
  /\ resetSinceTrace = FALSE
  /\ samplesSinceReset = NoSamples
  /\ released = [h \in Handles |-> 0]
  /\ nbDestroy = 0
  /\ nbSameImageWrites = 0
  /\ mainResult = NotReturned
  /\ nbSubmitted = 0
  /\ cmdBuf = <<>>
  /\ teardownLog = <<>>
  /\ do_snapshot = FALSE
  /\ queue = <<>>
  /\ hostRead = NoHostRead
  /\ uploaded = NoUpload

\* ray_tracing_gltf main(): the state after loadScene
InitGltf ==
  /\ app = "gltf"
  /\ pc = "createOffscreenRender"
  /\ m_gltfScene \in GltfScenes
  /\ models = <<>> /\ instances = <<>> /\ implicitObj = NoImplicit
  /\ m_offscreenColor = [image |-> 0, extent |-> <<0, 0>>]
  /\ m_size = <<SAMPLE_WIDTH, SAMPLE_HEIGHT>>
  /\ InitCommon

\* a client of Raytracer: its models, instances, implicit objects and output image
InitRaytracer ==
  /\ app = "raytracer"
  /\ pc = "createBottomLevelAS"
  /\ models \in { ObjModels(n) : n \in 0..MaxGeometries }
  /\ instances \in { WithTransforms("objIndex", s) :
                     s \in SeqsUpTo(0..MaxGeometries, MaxInstances) }
  /\ implicitObj \in { [objImpl |-> n, implBuf |-> 40, blasId |-> 0, transform |-> 9] :
                       n \in ImplicitSizes }
  /\ m_gltfScene = NoScene
  /\ m_offscreenColor = [image |-> 1, extent |-> <<SAMPLE_WIDTH, SAMPLE_HEIGHT>>]
  /\ m_size = <<SAMPLE_WIDTH, SAMPLE_HEIGHT>>
  /\ InitCommon

\* ray_tracing_ao main(): the state after loadModel
InitAO ==
  /\ app = "ao"
  /\ pc = "createOffscreenRender"
  /\ m_gltfScene = NoScene
  /\ models = <<>> /\ instances = <<>> /\ implicitObj = NoImplicit
  /\ m_offscreenColor = [image |-> 0, extent |-> <<0, 0>>]
  /\ m_size = <<AO_SAMPLE_WIDTH, AO_SAMPLE_HEIGHT>>
  /\ InitCommon

Init == InitGltf \/ InitRaytracer \/ InitAO

---------------------------------------------------------------------------
\* ray_tracing_gltf: main() and HelloVulkan

\* what buildTlas can do with an instance list: it completes; with an instance
\* whose blasId is no index of a BLAS it reads outside the BLAS vector, which
\* stops the process or goes on with whatever was read
TlasOutcomes(builder, tlas) ==
  IF ValidInstances(builder, tlas) THEN {TRUE} ELSE {TRUE, FALSE}

\* the command buffer HelloVulkan::createOffscreenRender records: the layout
\* transitions of the colour, the depth and the copy image
layoutCommands == <<"barrierColor", "barrierDepth", "barrierCopy">>

\* nvvk::CommandPool::submitAndWait, first half: the buffer is queued; the
\* caller then waits until the queue is idle
submit(q, cmds) == Append(q, [id |-> 0, cmds |-> cmds, done |-> 0, running |-> FALSE])

\* the device starts the next command of the oldest submitted buffer
device_begin ==
  /\ app = "gltf" /\ queue # <<>> /\ ~Head(queue).running
  /\ queue' = [queue EXCEPT ![1].running = TRUE]
  /\ UNCHANGED <<exitVars, cmdBuf, do_snapshot, hostRead, uploaded, teardownVars,
                 binding1Vars, app, pc, sceneVars, implicitObj, m_rtBuilder, pipeVars,
                 descVars, imageVars, frameVars, histVars>>

\* the device finishes the command it runs; after the last command of a buffer
\* the fence of the frame is signalled and the buffer leaves the queue
device_end ==
  /\ app = "gltf" /\ queue # <<>> /\ Head(queue).running
  /\ queue' = IF Head(queue).done + 1 = Len(Head(queue).cmds)
               THEN Tail(queue)
               ELSE [queue EXCEPT ![1].running = FALSE, ![1].done = @ + 1]
  /\ UNCHANGED <<exitVars, cmdBuf, do_snapshot, hostRead, uploaded, teardownVars,
                 binding1Vars, app, pc, sceneVars, implicitObj, m_rtBuilder, pipeVars,
                 descVars, imageVars, frameVars, histVars>>

\* main(): helloVk.createOffscreenRender(), up to the wait of submitAndWait
main_createOffscreenRender ==
  /\ app = "gltf" /\ pc = "createOffscreenRender"
  /\ m_offscreenColor' = createOffscreenRender(m_offscreenColor, m_size)
  /\ queue' = submit(queue, layoutCommands)
  /\ pc' = "createOffscreenRender_wait"
  /\ UNCHANGED <<exitVars, cmdBuf, do_snapshot, hostRead, uploaded, teardownVars,
                 binding1Vars, app, sceneVars, implicitObj, m_rtBuilder, pipeVars,
                 descVars, m_size, frameVars, histVars>>

\* main(): the wait of submitAndWait in createOffscreenRender returns: the
\* queue is idle; the render pass and the framebuffer follow
main_createOffscreenRender_afterWait ==
  /\ app = "gltf" /\ pc = "createOffscreenRender_wait"
  /\ queue = <<>>
  /\ pc' = "updateSceneDescriptorSet"
  /\ UNCHANGED <<exitVars, cmdBuf, snapVars, teardownVars, binding1Vars, app, sceneVars,
                 implicitObj, m_rtBuilder, pipeVars, descVars, imageVars, frameVars,
                 histVars>>

\* main(): helloVk.updateDescriptorSet(): the buffers of the scene and the
\* textures are written to m_descSet; the set has no acceleration structure
HelloVulkan_updateDescriptorSet ==
  /\ app = "gltf" /\ pc = "updateSceneDescriptorSet"
  /\ m_descSet' = [written |-> TRUE, tlas |-> 0]
  /\ pc' = "createBottomLevelAS"
  /\ UNCHANGED <<exitVars, cmdBuf, snapVars, teardownVars, binding1Vars, app, sceneVars,
                 implicitObj, m_rtBuilder, pipeVars, m_rtDescSet, m_postDescSet,
                 imageVars, frameVars, histVars>>

\* HelloVulkan::createBottomLevelAS
HelloVulkan_createBottomLevelAS ==
  /\ app = "gltf" /\ pc = "createBottomLevelAS"
  /\ m_rtBuilder' = buildBlas(m_rtBuilder, HelloVulkan_allBlas(m_gltfScene))
  /\ pc' = "createTopLevelAS"
  /\ UNCHANGED <<exitVars, cmdBuf, snapVars, teardownVars, binding1Vars, app, sceneVars, implicitObj, pipeVars, descVars, imageVars,
                 frameVars, histVars>>

\* HelloVulkan::createTopLevelAS
HelloVulkan_createTopLevelAS ==
  /\ app = "gltf" /\ pc = "createTopLevelAS"
  /\ LET tlas == HelloVulkan_tlas(m_gltfScene)
     IN  \E built \in TlasOutcomes(m_rtBuilder, tlas) :
           /\ m_rtBuilder' = buildTlas(m_rtBuilder, tlas, built)
           /\ pc' = IF built THEN "createRtDescriptorSet" ELSE "aborted"
  /\ UNCHANGED <<exitVars, cmdBuf, snapVars, teardownVars, binding1Vars, app, sceneVars, implicitObj, pipeVars, descVars, imageVars,
                 frameVars, histVars>>

\* mutant: main() creates the descriptor set before the top-level build
HelloVulkan_createRtDescriptorSet_beforeTlas ==
  /\ app = "gltf" /\ pc = "createTopLevelAS"
  /\ m_rtDescSet' = createRtDescriptorSet(m_rtBuilder, m_offscreenColor.image,
                                          m_gltfScene.rtPrimLookup)
  /\ pc' = "createRtPipeline"
  /\ UNCHANGED <<exitVars, cmdBuf, snapVars, teardownVars, binding1Vars, app, sceneVars, implicitObj, m_rtBuilder, pipeVars, m_descSet,
                 m_postDescSet, imageVars, frameVars, histVars>>

\* HelloVulkan::createRtDescriptorSet
HelloVulkan_createRtDescriptorSet ==
  /\ app = "gltf" /\ pc = "createRtDescriptorSet"
  /\ m_rtDescSet' = createRtDescriptorSet(m_rtBuilder, m_offscreenColor.image,
                                          m_gltfScene.rtPrimLookup)
  /\ pc' = "createRtPipeline"
  /\ UNCHANGED <<exitVars, cmdBuf, snapVars, teardownVars, binding1Vars, app, sceneVars, implicitObj, m_rtBuilder, pipeVars, m_descSet,
                 m_postDescSet, imageVars, frameVars, histVars>>

\* HelloVulkan::createRtPipeline
HelloVulkan_createRtPipeline ==
  /\ app = "gltf" /\ pc = "createRtPipeline"
  /\ LET info == HelloVulkan_rayPipelineInfo(m_rtShaderGroups)
     IN  /\ m_rtShaderGroups' = info.groups
         /\ rayPipelineInfo' = info
         /\ m_rtPipeline' = [ pipeline |-> m_rtPipeline.pipeline + 1,
                              pushConstantRanges |-> HelloVulkan_pushConstantRanges,
                              setLayouts |-> <<"m_rtDescSetLayout", "m_descSetLayout">>,
                              log |-> HelloVulkan_createRtPipelineLog ]
         /\ m_sbtWrapper' = SBTWrapper_create(info)
  /\ pc' = "updatePostDescriptorSet"
  /\ UNCHANGED <<exitVars, cmdBuf, snapVars, teardownVars, binding1Vars, app, sceneVars, implicitObj, m_rtBuilder, descVars, imageVars,
                 frameVars, histVars>>

\* main(): helloVk.updatePostDescriptorSet(), the last step before the loop
main_updatePostDescriptorSet ==
  /\ app = "gltf" /\ pc = "updatePostDescriptorSet"
  /\ m_postDescSet' = updatePostDescriptorSet(m_offscreenColor)
  /\ pc' = "loop"
  /\ UNCHANGED <<exitVars, cmdBuf, snapVars, teardownVars, binding1Vars, app, sceneVars, implicitObj, m_rtBuilder, pipeVars, m_rtDescSet,
                 m_descSet, imageVars, frameVars, histVars>>

\* main(): glfwPollEvents / the camera widget move the camera or change its fov
main_cameraEvent ==
  /\ app = "gltf" /\ pc = "loop"
  /\ \E m \in CamMatrices, f \in Fovs :
       /\ [matrix |-> m, fov |-> f] # CameraManip
       /\ CameraManip' = [matrix |-> m, fov |-> f]
  /\ UNCHANGED <<exitVars, cmdBuf, snapVars, teardownVars, binding1Vars, app, pc, sceneVars, implicitObj, m_rtBuilder, pipeVars, descVars,
                 imageVars, refCam, m_rtPushConstants, useRaytracer, histVars>>

\* main(): glfwPollEvents delivers a framebuffer resize, which reports a size
\* other than the current one; HelloVulkan::onResize calls
\* createOffscreenRender, which runs up to the wait of submitAndWait
HelloVulkan_onResize_createOffscreenRender ==
  /\ app = "gltf" /\ pc = "loop"
  /\ m_offscreenColor.image < MaxImages
  /\ \E e \in Extents \ {m_size} :
       /\ m_size' = e
       /\ m_offscreenColor' = createOffscreenRender(m_offscreenColor, e)
  /\ queue' = submit(queue, layoutCommands)
  /\ pc' = "onResize_wait"
  /\ UNCHANGED <<exitVars, cmdBuf, do_snapshot, hostRead, uploaded, teardownVars,
                 binding1Vars, app, sceneVars, implicitObj, m_rtBuilder, pipeVars,
                 descVars, frameVars, histVars>>

\* mutant: onResize leaves the ray tracing descriptor set as it is
HelloVulkan_onResize_noRtUpdate ==
  /\ app = "gltf" /\ pc = "onResize_wait"
  /\ queue = <<>>
  /\ m_postDescSet' = updatePostDescriptorSet(m_offscreenColor)
  /\ m_rtPushConstants' = resetFrame(m_rtPushConstants)
  /\ resetSinceTrace' = TRUE
  /\ pc' = "loop"
  /\ UNCHANGED <<samplesSinceReset, exitVars, cmdBuf, snapVars, teardownVars, binding1Vars, app, sceneVars,
                 implicitObj, m_rtBuilder, pipeVars, m_rtDescSet, m_descSet, imageVars,
                 CameraManip, refCam, useRaytracer, offscreenWriter, lastTrace>>

\* HelloVulkan::onResize after the wait of submitAndWait returned with the
\* queue idle: the rest of createOffscreenRender; updatePostDescriptorSet;
\* updateRtDescriptorSet; resetFrame
HelloVulkan_onResize ==
  /\ app = "gltf" /\ pc = "onResize_wait"
  /\ queue = <<>>
  /\ m_postDescSet' = updatePostDescriptorSet(m_offscreenColor)
  /\ m_rtDescSet' = updateRtDescriptorSet(m_rtDescSet, m_offscreenColor.image)
  /\ m_rtPushConstants' = resetFrame(m_rtPushConstants)
  /\ resetSinceTrace' = TRUE
  /\ nbSameImageWrites' = 1
  /\ pc' = "loop"
  /\ UNCHANGED <<samplesSinceReset, exitVars, cmdBuf, snapVars, teardownVars, app, sceneVars, implicitObj,
                 m_rtBuilder, pipeVars, m_descSet, imageVars, CameraManip, refCam,
                 useRaytracer, offscreenWriter, lastTrace>>

\* main(): the "Ray Tracer mode" checkbox
main_toggleRaytracer ==
  /\ app = "gltf" /\ pc = "loop"
  /\ useRaytracer' = ~useRaytracer
  /\ UNCHANGED <<exitVars, cmdBuf, snapVars, teardownVars, binding1Vars, app, pc, sceneVars, implicitObj, m_rtBuilder, pipeVars, descVars,
                 imageVars, CameraManip, refCam, m_rtPushConstants, histVars>>

\* main(): if(useRaytracer) helloVk.raytrace(cmdBuf, clearColor)
HelloVulkan_raytrace ==
  /\ app = "gltf" /\ pc = "loop" /\ useRaytracer
  /\ LET run == recordCommands(HelloVulkan_raytraceSteps,
                                [ ref |-> refCam, cam |-> CameraManip,
                                  pushC |-> m_rtPushConstants,
                                  sets |-> <<"m_rtDescSet", "m_descSet">>,
                                  pushed |-> m_rtPushConstants, cmds |-> <<>> ])
     IN  /\ run.pushC.frame <= MaxFrame
         /\ refCam' = run.ref
         /\ m_rtPushConstants' = run.pushC
         /\ cmdBuf' = run.cmds
         /\ lastTrace' = TraceRecord(run.pushed, HelloVulkan_pushStages, CameraManip,
                                     m_size, m_sbtWrapper, m_rtDescSet, m_offscreenColor,
                                     lastTrace)
  /\ resetSinceTrace' = FALSE
  /\ offscreenWriter' = "raytrace"
  /\ UNCHANGED <<samplesSinceReset, exitVars, snapVars, teardownVars, binding1Vars, app, pc, sceneVars, implicitObj, m_rtBuilder, pipeVars, descVars,
                 imageVars, CameraManip, useRaytracer>>

\* mutant: the rasterizer is recorded whatever the checkbox says
HelloVulkan_rasterize_always ==
  /\ app = "gltf" /\ pc = "loop"
  /\ offscreenWriter' = "rasterize"
  /\ UNCHANGED <<samplesSinceReset, exitVars, cmdBuf, snapVars, teardownVars, binding1Vars, app, pc, sceneVars, implicitObj,
                 m_rtBuilder, pipeVars, descVars, imageVars, frameVars, lastTrace,
                 resetSinceTrace>>

\* main(): else { beginRenderPass; helloVk.rasterize(cmdBuf); endRenderPass }
HelloVulkan_rasterize ==
  /\ app = "gltf" /\ pc = "loop" /\ ~useRaytracer
  /\ offscreenWriter' = "rasterize"
  /\ UNCHANGED <<samplesSinceReset, exitVars, cmdBuf, snapVars, teardownVars, binding1Vars, app, pc, sceneVars, implicitObj, m_rtBuilder, pipeVars, descVars,
                 imageVars, frameVars, lastTrace, resetSinceTrace>>

\* main(): the window closes and ends the loop; waitIdle;
\* HelloVulkan::destroyResources.  The members keep the values of the handles
\* they held; the objects behind them are released.
HelloVulkan_destroyResources ==
  /\ app = "gltf" /\ pc = "loop"
  /\ pc' = "done"
  /\ released' = HelloVulkan_destroyed(released, m_rtBuilder, m_rtDescSet, m_rtPipeline)
  /\ nbDestroy' = nbDestroy + 1
  /\ teardownLog' = main_cleanupLog(HelloVulkan_destroyResourcesLog)
  /\ mainResult' = ReturnedZero
  /\ UNCHANGED <<nbSubmitted, cmdBuf, snapVars, binding1Vars, app, sceneVars, implicitObj,
                 m_rtBuilder, pipeVars, descVars, imageVars, frameVars, histVars>>

---------------------------------------------------------------------------
\* Raytracer and its client

\* Raytracer::createBottomLevelAS(models, implicitObj)
Raytracer_createBottomLevelAS ==
  /\ app = "raytracer" /\ pc = "createBottomLevelAS"
  /\ LET allBlas == Raytracer_allBlas(models, implicitObj)
     IN  /\ implicitObj' = IF implicitObj.objImpl # 0
                           THEN [implicitObj EXCEPT !.blasId = Raytracer_implicitBlasId(allBlas)]
                           ELSE implicitObj
         /\ m_rtBuilder' = buildBlas(m_rtBuilder, allBlas)
  /\ pc' = "createTopLevelAS"
  /\ UNCHANGED <<exitVars, cmdBuf, snapVars, teardownVars, binding1Vars, app, sceneVars, pipeVars, descVars, imageVars, frameVars, histVars>>

\* Raytracer::createTopLevelAS(instances, implicitObj)
Raytracer_createTopLevelAS ==
  /\ app = "raytracer" /\ pc = "createTopLevelAS"
  /\ LET tlas == Raytracer_tlas(instances, implicitObj)
     IN  \E built \in TlasOutcomes(m_rtBuilder, tlas) :
           /\ m_rtBuilder' = buildTlas(m_rtBuilder, tlas, built)
           /\ pc' = IF built THEN "createRtDescriptorSet" ELSE "aborted"
  /\ UNCHANGED <<exitVars, cmdBuf, snapVars, teardownVars, binding1Vars, app, sceneVars, implicitObj, pipeVars, descVars, imageVars,
                 frameVars, histVars>>

\* Raytracer::createRtDescriptorSet(outputImage): bindings 0 and 1 only
Raytracer_createRtDescriptorSet ==
  /\ app = "raytracer" /\ pc = "createRtDescriptorSet"
  /\ m_rtDescSet' = createRtDescriptorSet(m_rtBuilder, m_offscreenColor.image, 0)
  /\ pc' = "createRtPipeline"
  /\ UNCHANGED <<exitVars, cmdBuf, snapVars, teardownVars, binding1Vars, app, sceneVars, implicitObj, m_rtBuilder, pipeVars, m_descSet,
                 m_postDescSet, imageVars, frameVars, histVars>>

\* Raytracer::createRtPipeline(sceneDescLayout)
Raytracer_createRtPipeline ==
  /\ app = "raytracer" /\ pc = "createRtPipeline"
  /\ LET info == Raytracer_rayPipelineInfo(m_rtShaderGroups)
     IN  /\ m_rtShaderGroups' = info.groups
         /\ rayPipelineInfo' = info
         /\ m_rtPipeline' = [ pipeline |-> m_rtPipeline.pipeline + 1,
                              pushConstantRanges |-> Raytracer_pushConstantRanges,
                              setLayouts |-> <<"m_rtDescSetLayout", "sceneDescLayout">>,
                              log |-> Raytracer_createRtPipelineLog ]
         /\ m_sbtWrapper' = SBTWrapper_create(info)
  /\ pc' = "loop"
  /\ UNCHANGED <<exitVars, cmdBuf, snapVars, teardownVars, binding1Vars, app, sceneVars, implicitObj, m_rtBuilder, descVars, imageVars,
                 frameVars, histVars>>

\* the client resized its output image; Raytracer::updateRtDescriptorSet(outputImage)
Raytracer_updateRtDescriptorSet ==
  /\ app = "raytracer" /\ pc = "loop"
  /\ m_offscreenColor.image < MaxImages
  /\ \E e \in Extents \ {m_size} :
       /\ m_size' = e
       /\ m_offscreenColor' = createOffscreenRender(m_offscreenColor, e)
  /\ m_rtDescSet' = updateRtDescriptorSet(m_rtDescSet, m_offscreenColor'.image)
  /\ nbSameImageWrites' = 1
  /\ UNCHANGED <<exitVars, cmdBuf, snapVars, teardownVars, app, pc, sceneVars, implicitObj, m_rtBuilder, pipeVars, m_descSet,
                 m_postDescSet, frameVars, histVars>>

\* Raytracer::raytrace(cmdBuf, clearColor, sceneDescSet, size, sceneConstants):
\* the frame pushed is the one the caller passes in sceneConstants
Raytracer_raytrace ==
  /\ app = "raytracer" /\ pc = "loop"
  /\ \E frame \in 0..MaxFrame :
       LET run == recordCommands(Raytracer_raytraceSteps,
                                 [ ref |-> refCam, cam |-> NoCam,
                                   pushC |-> [m_rtPushConstants EXCEPT !.frame = frame],
                                   sets |-> <<"m_rtDescSet", "sceneDescSet">>,
                                   pushed |-> m_rtPushConstants, cmds |-> <<>> ])
       IN  /\ m_rtPushConstants' = run.pushC
           /\ cmdBuf' = run.cmds
           /\ lastTrace' = TraceRecord(run.pushed, Raytracer_pushStages, NoCam, m_size,
                                       m_sbtWrapper, m_rtDescSet, m_offscreenColor,
                                       lastTrace)
  /\ resetSinceTrace' = FALSE
  /\ offscreenWriter' = "raytrace"
  /\ UNCHANGED <<samplesSinceReset, exitVars, snapVars, teardownVars, binding1Vars, app, pc, sceneVars, implicitObj, m_rtBuilder, pipeVars, descVars,
                 imageVars, CameraManip, refCam, useRaytracer>>

\* Raytracer::destroy.  The members keep the values of the handles they held.
Raytracer_destroy ==
  /\ app = "raytracer" /\ pc = "loop"
  /\ pc' = "done"
  /\ released' = Raytracer_destroyed(released, m_rtBuilder, m_rtDescSet, m_rtPipeline)
  /\ nbDestroy' = nbDestroy + 1
  /\ teardownLog' = Raytracer_destroyLog
  /\ UNCHANGED <<exitVars, cmdBuf, snapVars, binding1Vars, app, sceneVars, implicitObj, m_rtBuilder, pipeVars, descVars,
                 imageVars, frameVars, histVars>>

---------------------------------------------------------------------------
\* ray_tracing_ao: main()

\* the values e.code().value() of a std::system_error thrown by a failed Vulkan
\* call: vk::Result error values (eErrorDeviceLost is -4)
SystemErrorCodes == {-4, -1}

\* mutant: the handler prints the message and the loop goes on
catchSystemError_swallowed(code) ==
  [ pc     |-> "loop",
    result |-> [returned |-> FALSE, code |-> 0, diagnostic |-> TRUE, error |-> code] ]

\* main(): catch(const std::system_error& e) { std::cout << e.what();
\* return e.code().value(); }
catchSystemError(code) ==
  [ pc     |-> "returned",
    result |-> [returned |-> TRUE, code |-> code, diagnostic |-> TRUE, error |-> code] ]

\* main(): helloVk.createOffscreenRender()
ao_createOffscreenRender ==
  /\ app = "ao" /\ pc = "createOffscreenRender"
  /\ m_offscreenColor' = createOffscreenRender(m_offscreenColor, m_size)
  /\ pc' = "createBottomLevelAS"
  /\ UNCHANGED <<exitVars, cmdBuf, snapVars, teardownVars, binding1Vars, app, sceneVars, implicitObj, m_rtBuilder, pipeVars, descVars, m_size,
                 frameVars, histVars>>

\* main(): helloVk.createBottomLevelAS()
ao_createBottomLevelAS ==
  /\ app = "ao" /\ pc = "createBottomLevelAS"
  /\ m_rtBuilder' = buildBlas(m_rtBuilder, <<>>)
  /\ pc' = "createTopLevelAS"
  /\ UNCHANGED <<exitVars, cmdBuf, snapVars, teardownVars, binding1Vars, app, sceneVars, implicitObj, pipeVars, descVars, imageVars,
                 frameVars, histVars>>

\* main(): helloVk.createTopLevelAS()
ao_createTopLevelAS ==
  /\ app = "ao" /\ pc = "createTopLevelAS"
  /\ m_rtBuilder' = buildTlas(m_rtBuilder, <<>>, TRUE)
  /\ pc' = "updateDescriptorSet"
  /\ UNCHANGED <<exitVars, cmdBuf, snapVars, teardownVars, binding1Vars, app, sceneVars, implicitObj, pipeVars, descVars, imageVars,
                 frameVars, histVars>>

\* main(): "Need the Top level AS": helloVk.updateDescriptorSet()
ao_updateDescriptorSet ==
  /\ app = "ao" /\ pc = "updateDescriptorSet"
  /\ m_descSet' = [written |-> TRUE, tlas |-> getAccelerationStructure(m_rtBuilder)]
  /\ pc' = "updatePostDescriptorSet"
  /\ UNCHANGED <<exitVars, cmdBuf, snapVars, teardownVars, binding1Vars, app, sceneVars, implicitObj, m_rtBuilder, pipeVars, m_rtDescSet,
                 m_postDescSet, imageVars, frameVars, histVars>>

\* main(): helloVk.updatePostDescriptorSet()
ao_updatePostDescriptorSet ==
  /\ app = "ao" /\ pc = "updatePostDescriptorSet"
  /\ m_postDescSet' = updatePostDescriptorSet(m_offscreenColor)
  /\ pc' = "loop"
  /\ UNCHANGED <<exitVars, cmdBuf, snapVars, teardownVars, binding1Vars, app, sceneVars, implicitObj, m_rtBuilder, pipeVars, m_rtDescSet,
                 m_descSet, imageVars, frameVars, histVars>>

\* main(): glfwPollEvents / the camera widget move the camera or change its fov
ao_cameraEvent ==
  /\ app = "ao" /\ pc = "loop"
  /\ \E m \in CamMatrices, f \in Fovs :
       /\ [matrix |-> m, fov |-> f] # CameraManip
       /\ CameraManip' = [matrix |-> m, fov |-> f]
  /\ UNCHANGED <<exitVars, cmdBuf, snapVars, teardownVars, binding1Vars, app, pc, sceneVars,
                 implicitObj, m_rtBuilder, pipeVars, descVars, imageVars, refCam,
                 m_rtPushConstants, useRaytracer, histVars>>

\* main(): an ambient-occlusion control changed: helloVk.resetFrame()
ao_resetFrame ==
  /\ app = "ao" /\ pc = "loop"
  /\ m_rtPushConstants' = resetFrame(m_rtPushConstants)
  /\ resetSinceTrace' = TRUE
  /\ samplesSinceReset' = [valid |-> TRUE, n |-> 0]
  /\ UNCHANGED <<exitVars, cmdBuf, snapVars, teardownVars, binding1Vars, app, pc, sceneVars,
                 implicitObj, m_rtBuilder, pipeVars, descVars, imageVars, CameraManip,
                 refCam, useRaytracer, offscreenWriter, lastTrace>>

\* helloVk.runCompute(cmdBuf, aoControl), the dispatch of ray_tracing_ao: the
\* per-frame operation on the scene descriptor set
ao_runCompute(ref, cam, pushC) ==
  recordCommands(ao_runComputeSteps,
                 [ ref |-> ref, cam |-> cam, pushC |-> pushC, sets |-> <<"m_descSet">>,
                   pushed |-> pushC, cmds |-> <<>> ])

\* the dispatches recorded since the last resetFrame of main(), one more
ao_countSample(samples) == IF samples.valid THEN [samples EXCEPT !.n = @ + 1] ELSE samples

\* main(): one iteration of the loop with no error: beginRenderPass;
\* helloVk.rasterize(cmdBuf); endRenderPass; runCompute; ...; submitFrame
ao_rasterize ==
  /\ app = "ao" /\ pc = "loop"
  /\ nbSubmitted < MaxFrame
  /\ offscreenWriter' = "rasterize"
  /\ LET run == ao_runCompute(refCam, CameraManip, m_rtPushConstants)
     IN  /\ refCam' = run.ref
         /\ m_rtPushConstants' = run.pushC
         /\ cmdBuf' = run.cmds
  /\ resetSinceTrace' = FALSE
  /\ samplesSinceReset' = ao_countSample(samplesSinceReset)
  /\ nbSubmitted' = nbSubmitted + 1
  /\ UNCHANGED <<mainResult, snapVars, teardownVars, binding1Vars, app, pc, sceneVars,
                 implicitObj, m_rtBuilder, pipeVars, descVars, imageVars, CameraManip,
                 useRaytracer, lastTrace>>

\* the calls of the loop body that can raise the error, by what the iteration
\* has recorded when they do: nothing, the offscreen pass, or the offscreen
\* pass and the dispatch of runCompute
Throwers == {"prepareFrame", "runCompute", "submitFrame"}

\* main(): a call inside the try block throws std::system_error(code): the
\* iteration is abandoned before its submitFrame completes and the handler runs
ao_systemError ==
  /\ app = "ao" /\ pc = "loop"
  /\ \E code \in SystemErrorCodes :
       LET c == catchSystemError(code)
       IN  /\ pc' = c.pc
           /\ mainResult' = c.result
  /\ \E thrower \in Throwers :
       LET run == ao_runCompute(refCam, CameraManip, m_rtPushConstants)
           dispatched == thrower = "submitFrame"
       IN  /\ offscreenWriter' = IF thrower = "prepareFrame" THEN offscreenWriter
                                  ELSE "rasterize"
           /\ refCam' = IF dispatched THEN run.ref ELSE refCam
           /\ m_rtPushConstants' = IF dispatched THEN run.pushC ELSE m_rtPushConstants
           /\ cmdBuf' = IF dispatched THEN run.cmds ELSE cmdBuf
           /\ resetSinceTrace' = IF dispatched THEN FALSE ELSE resetSinceTrace
           /\ samplesSinceReset' = IF dispatched THEN ao_countSample(samplesSinceReset)
                                    ELSE samplesSinceReset
  /\ UNCHANGED <<nbSubmitted, snapVars, teardownVars, binding1Vars, app, sceneVars,
                 implicitObj, m_rtBuilder, pipeVars, descVars, imageVars, CameraManip,
                 useRaytracer, lastTrace>>

\* main(): glfwWindowShouldClose ends the loop; cleanup; return 0
ao_cleanup ==
  /\ app = "ao" /\ pc = "loop"
  /\ pc' = "done"
  /\ released' = HelloVulkan_destroyed(released, m_rtBuilder, m_rtDescSet, m_rtPipeline)
  /\ nbDestroy' = nbDestroy + 1
  /\ teardownLog' = main_cleanupLog(<<Stmt("call", "helloVk.destroyResources")>>)
  /\ mainResult' = ReturnedZero
  /\ UNCHANGED <<nbSubmitted, cmdBuf, snapVars, binding1Vars, app, sceneVars, implicitObj, m_rtBuilder, pipeVars, descVars,
                 imageVars, frameVars, histVars>>

---------------------------------------------------------------------------
Next ==
  \/ main_createOffscreenRender
  \/ main_createOffscreenRender_afterWait
  \/ HelloVulkan_updateDescriptorSet
  \/ device_begin
  \/ device_end
  \/ HelloVulkan_createBottomLevelAS
  \/ HelloVulkan_createTopLevelAS
  \/ HelloVulkan_createRtDescriptorSet
  \/ HelloVulkan_createRtPipeline
  \/ main_updatePostDescriptorSet
  \/ main_cameraEvent
  \/ HelloVulkan_onResize_createOffscreenRender
  \/ HelloVulkan_onResize
  \/ main_toggleRaytracer
  \/ HelloVulkan_raytrace
  \/ HelloVulkan_rasterize
  \/ HelloVulkan_destroyResources
  \/ Raytracer_createBottomLevelAS
  \/ Raytracer_createTopLevelAS
  \/ Raytracer_createRtDescriptorSet
  \/ Raytracer_createRtPipeline
  \/ Raytracer_updateRtDescriptorSet
  \/ Raytracer_raytrace
  \/ Raytracer_destroy
  \/ ao_createOffscreenRender
  \/ ao_createBottomLevelAS
  \/ ao_createTopLevelAS
  \/ ao_updateDescriptorSet
  \/ ao_updatePostDescriptorSet
  \/ ao_cameraEvent
  \/ ao_resetFrame
  \/ ao_rasterize
  \/ ao_systemError
  \/ ao_cleanup

Spec == Init /\ [][Next]_vars

---------------------------------------------------------------------------
\* Raytracer under a client that is free to repeat calls of its interface

\* Raytracer::destroy called again after a first call
Raytracer_destroyAgain ==
  /\ app = "raytracer" /\ pc = "done"
  /\ nbDestroy < MaxDestroy
  /\ released' = Raytracer_destroyed(released, m_rtBuilder, m_rtDescSet, m_rtPipeline)
  /\ nbDestroy' = nbDestroy + 1
  /\ teardownLog' = Raytracer_destroyLog
  /\ UNCHANGED <<exitVars, cmdBuf, snapVars, binding1Vars, app, pc, sceneVars, implicitObj, m_rtBuilder, pipeVars, descVars,
                 imageVars, frameVars, histVars>>

\* Raytracer::updateRtDescriptorSet(outputImage) called again with the image
\* view of the call before
Raytracer_updateRtDescriptorSetAgain ==
  /\ app = "raytracer" /\ pc = "loop"
  /\ nbSameImageWrites \in 1..(MaxSameUpdates - 1)
  /\ m_rtDescSet' = updateRtDescriptorSet(m_rtDescSet, m_offscreenColor.image)
  /\ nbSameImageWrites' = nbSameImageWrites + 1
  /\ UNCHANGED <<exitVars, cmdBuf, snapVars, teardownVars, app, pc, sceneVars, implicitObj, m_rtBuilder, pipeVars,
                 m_descSet, m_postDescSet, imageVars, frameVars, histVars>>

\* Raytracer::createTopLevelAS(instances, implicitObj) called again while
\* frames are rendered: a full build, whose TLAS replaces the one before
Raytracer_createTopLevelASAgain ==
  /\ app = "raytracer" /\ pc = "loop"
  /\ m_rtBuilder.nbBuildTlas < MaxTlasBuilds
  /\ LET tlas == Raytracer_tlas(instances, implicitObj)
     IN  \E built \in TlasOutcomes(m_rtBuilder, tlas) :
           /\ m_rtBuilder' = buildTlas(m_rtBuilder, tlas, built)
           /\ pc' = IF built THEN "loop" ELSE "aborted"
  /\ UNCHANGED <<exitVars, cmdBuf, snapVars, teardownVars, binding1Vars, app, sceneVars, implicitObj, pipeVars,
                 descVars, imageVars, frameVars, histVars>>

\* Raytracer::createRtPipeline(sceneDescLayout) called again: stages is a
\* local vector, m_rtShaderGroups is the member the first call filled
Raytracer_createRtPipelineAgain ==
  /\ app = "raytracer" /\ pc = "loop"
  /\ m_rtPipeline.pipeline < MaxPipelines
  /\ LET info == Raytracer_rayPipelineInfo(m_rtShaderGroups)
     IN  /\ m_rtShaderGroups' = info.groups
         /\ rayPipelineInfo' = info
         /\ m_rtPipeline' = [ pipeline |-> m_rtPipeline.pipeline + 1,
                              pushConstantRanges |-> Raytracer_pushConstantRanges,
                              setLayouts |-> <<"m_rtDescSetLayout", "sceneDescLayout">>,
                              log |-> Raytracer_createRtPipelineLog ]
         /\ m_sbtWrapper' = SBTWrapper_create(info)
  /\ UNCHANGED <<exitVars, cmdBuf, snapVars, teardownVars, binding1Vars, app, pc, sceneVars,
                 implicitObj, m_rtBuilder, descVars, imageVars, frameVars, histVars>>

NextApi ==
  \/ Raytracer_createBottomLevelAS
  \/ Raytracer_createTopLevelAS
  \/ Raytracer_createRtDescriptorSet
  \/ Raytracer_createRtPipeline
  \/ Raytracer_updateRtDescriptorSet
  \/ Raytracer_raytrace
  \/ Raytracer_destroy
  \/ Raytracer_destroyAgain
  \/ Raytracer_updateRtDescriptorSetAgain
  \/ Raytracer_createTopLevelASAgain
  \/ Raytracer_createRtPipelineAgain

\* the client of this specification has at most one model and one instance
InitApi == InitRaytracer /\ Len(models) <= 1 /\ Len(instances) <= 1

SpecApi == InitApi /\ [][NextApi]_vars

---------------------------------------------------------------------------
\* ray_tracing_gltf: the frames of main() with the snapshot of the offscreen
\* image.  The host records and submits a command buffer per frame; the device
\* executes the submitted buffers in order, one command at a time, on its own.

\* the commands main() records in the command buffer of a frame: the scene
\* (raytrace or rasterize), with a snapshot the vkCmdCopyImage and the
\* vkCmdPipelineBarrier of HelloVulkan::snapshot, then the post pass
frameCommands(snap) ==
  IF snap THEN <<"render", "copyImage", "barrier", "post">> ELSE <<"render", "post">>

\* what the device has done with the vkCmdCopyImage of frame id: a buffer that
\* left the queue is complete
copyState(q, id) ==
  LET at == { i \in 1..Len(q) : q[i].id = id }
  IN  IF at = {} THEN "done"
      ELSE LET b == q[CHOOSE i \in at : TRUE]
           IN  IF b.done >= 2 THEN "done"
               ELSE IF b.done = 1 /\ b.running THEN "running"
               ELSE "pending"

\* the row pitches vkGetImageSubresourceLayout can report for the linear copy
\* image of an extent: the tightly packed rows, or rows padded by whole texels
RowPitches(size) == { size[1] * TexelBytes + k * TexelBytes : k \in 0..MaxRowPadding }

\* the loop of upload_image over the rows first, ..., last - 1: row y is written
\* to img[y * pitch .. y * pitch + pitch - 1]; the result is the largest end of
\* a write (0 with no row).  The rows are independent of each other, so the
\* range is split in halves.
RECURSIVE upload_rows(_, _, _)
upload_rows(first, last, pitch) ==
  IF first >= last THEN 0
  ELSE IF last = first + 1
  THEN LET offset == first * pitch
       IN  offset + pitch
  ELSE LET mid == (first + last) \div 2
           lo == upload_rows(first, mid, pitch)
           hi == upload_rows(mid, last, pitch)
       IN  IF lo > hi THEN lo ELSE hi

\* HelloVulkan::upload_image: img has height * width * 4 elements, pitch is
\* rowPitch / sizeof(float)
\* rowPitch / sizeof(float); a write that ends behind the last element of img
\* goes to the heap behind the vector
upload_image(size, rowPitch) ==
  LET pitch   == rowPitch \div FloatBytes
      imgSize == size[2] * size[1] * ImgChannels
      lastEnd == upload_rows(0, size[2], pitch)
  IN  [ valid   |-> TRUE,
        pitch   |-> pitch,
        height  |-> size[2],
        imgSize |-> imgSize,
        lastEnd |-> lastEnd,
        heap    |-> IF lastEnd > imgSize THEN "corrupt" ELSE "ok" ]

\* what the process can do once writes went behind img: the allocator stops
\* it at a later allocation or release, or it goes on
HeapOutcomes(heap) == IF heap = "corrupt" THEN {"goesOn", "aborted"} ELSE {"goesOn"}

\* main(): renderUI(helloVk, do_snapshot): the user asks for a snapshot
main_requestSnapshot ==
  /\ app = "gltf" /\ pc = "loop" /\ ~do_snapshot
  /\ do_snapshot' = TRUE
  /\ UNCHANGED <<exitVars, cmdBuf, queue, hostRead, uploaded, teardownVars, binding1Vars,
                 app, pc, sceneVars, implicitObj, m_rtBuilder, pipeVars, descVars,
                 imageVars, frameVars, histVars>>

\* main(): helloVk.prepareFrame(): the next swapchain image is acquired and
\* the fence of its frame is waited for, so at most MaxInFlight - 1 earlier
\* frames are still with the device when recording starts
main_prepareFrame ==
  /\ app = "gltf" /\ pc = "loop"
  /\ nbSubmitted < MaxFrame
  /\ Len(queue) < MaxInFlight
  /\ pc' = "record"
  /\ UNCHANGED <<exitVars, cmdBuf, snapVars, teardownVars, binding1Vars, app, sceneVars,
                 implicitObj, m_rtBuilder, pipeVars, descVars, imageVars, frameVars,
                 histVars>>

\* main(): cmdBuf.begin ... if(do_snapshot) helloVk.snapshot(cmdBuf) ...
\* cmdBuf.end(); helloVk.submitFrame(): the buffer is queued and the call returns
main_submitFrame ==
  /\ app = "gltf" /\ pc = "record"
  /\ queue' = Append(queue, [ id |-> nbSubmitted + 1, cmds |-> frameCommands(do_snapshot),
                              done |-> 0, running |-> FALSE ])
  /\ nbSubmitted' = nbSubmitted + 1
  /\ pc' = IF do_snapshot THEN "upload" ELSE "loop"
  /\ UNCHANGED <<mainResult, cmdBuf, do_snapshot, hostRead, uploaded, teardownVars,
                 binding1Vars, app, sceneVars, implicitObj, m_rtBuilder, pipeVars, descVars,
                 imageVars, frameVars, histVars>>

\* main(): if(do_snapshot) { auto img = helloVk.upload_image(); ... }
\* do_snapshot = false: the host maps the copy image and reads it
\* With writes behind img the release of img, or a later allocation, can stop
\* the process; the heap stays damaged for the rest of the run.
HelloVulkan_upload_image ==
  /\ app = "gltf" /\ pc = "upload"
  /\ hostRead' = [valid |-> TRUE, copy |-> copyState(queue, nbSubmitted)]
  /\ \E rowPitch \in RowPitches(m_size) :
       LET up   == upload_image(m_size, rowPitch)
           heap == IF uploaded.heap = "corrupt" THEN "corrupt" ELSE up.heap
       IN  /\ uploaded' = [up EXCEPT !.heap = heap]
           /\ \E outcome \in HeapOutcomes(heap) :
                /\ pc' = IF outcome = "aborted" THEN "aborted" ELSE "loop"
                /\ do_snapshot' = IF outcome = "aborted" THEN do_snapshot ELSE FALSE
  /\ UNCHANGED <<exitVars, cmdBuf, queue, teardownVars, binding1Vars, app, sceneVars,
                 implicitObj, m_rtBuilder, pipeVars, descVars, imageVars, frameVars,
                 histVars>>

\* main(): an allocation or a release of a later statement of the loop finds
\* the heap damaged by upload_image and the allocator stops the process
main_heapAbort ==
  /\ app = "gltf" /\ pc \in {"loop", "record", "upload", "onResize_wait"}
  /\ uploaded.heap = "corrupt"
  /\ pc' = "aborted"
  /\ UNCHANGED <<exitVars, cmdBuf, snapVars, teardownVars, binding1Vars, app, sceneVars,
                 implicitObj, m_rtBuilder, pipeVars, descVars, imageVars, frameVars,
                 histVars>>

NextSnapshot ==
  \/ main_createOffscreenRender
  \/ main_createOffscreenRender_afterWait
  \/ HelloVulkan_updateDescriptorSet
  \/ HelloVulkan_createBottomLevelAS
  \/ HelloVulkan_createTopLevelAS
  \/ HelloVulkan_createRtDescriptorSet
  \/ HelloVulkan_createRtPipeline
  \/ main_updatePostDescriptorSet
  \/ HelloVulkan_onResize_createOffscreenRender
  \/ HelloVulkan_onResize
  \/ main_requestSnapshot
  \/ main_prepareFrame
  \/ main_submitFrame
  \/ HelloVulkan_upload_image
  \/ main_heapAbort
  \/ device_begin
  \/ device_end

\* the scenes of this specification have at most one primitive and one node
InitSnapshot ==
  InitGltf /\ Len(m_gltfScene.m_primMeshes) <= 1 /\ Len(m_gltfScene.m_nodes) <= 1

SpecSnapshot == InitSnapshot /\ [][NextSnapshot]_vars

---------------------------------------------------------------------------
\* Frame counter properties

\* a step that records a traceRaysKHR command of ray_tracing_gltf, the first
\* one included
gltfStep == app = "gltf" /\ lastTrace' # lastTrace

\* a step that records a traceRaysKHR command of ray_tracing_gltf after another
gltfDispatch == app = "gltf" /\ lastTrace.valid /\ lastTrace' # lastTrace

\* C1: in ray_tracing_gltf, when a dispatch follows another with no resetFrame
\* or onResize in between and the camera matrix and fov equal those of the
\* earlier dispatch, the frame pushed is the frame pushed before plus 1.
C1_SameCameraIncrements ==
  [][ (gltfDispatch /\ ~resetSinceTrace /\ CameraManip = lastTrace.cam)
        => lastTrace'.frame = lastTrace.frame + 1 ]_vars

\* a second dispatch with the camera of the first has pushed frame 1 or more
C1_Witness ==
  /\ app = "gltf" /\ lastTrace.valid /\ ~lastTrace.camChanged
  /\ lastTrace.frame >= 1 /\ lastTrace.frame = m_rtPushConstants.frame

\* C2 as stated: when the camera matrix or fov differs from that of the
\* previous dispatch, the frame pushed is the value resetFrame stores.
C2_PushesSentinel ==
  [][ (gltfDispatch /\ CameraManip # lastTrace.cam)
        => lastTrace'.frame = ResetFrameValue ]_vars

\* C2: when the camera matrix or fov differs from that of the previous
\* dispatch, updateFrame resets the counter and then increments it, so the
\* frame pushed is the value resetFrame stores plus 1, whatever was pushed before.
C2_RestartsAfterSentinel ==
  [][ (gltfDispatch /\ CameraManip # lastTrace.cam)
        => lastTrace'.frame = ResetFrameValue + 1 ]_vars

\* a dispatch with a camera other than that of the dispatch before it
C2_Witness ==
  /\ app = "gltf" /\ lastTrace.valid /\ lastTrace.camChanged
  /\ lastTrace.frame = ResetFrameValue + 1

---------------------------------------------------------------------------
\* Shader binding table properties

pipelineCreated == m_rtPipeline.pipeline # 0

regionCounts == [i \in 1..4 |-> Len(getRegions(m_sbtWrapper)[i])]

\* C3: once createRtPipeline has run, the raygen region holds exactly one
\* group and the four regions together hold every shader group: 1, 2, 2, 3
\* of 8 in Raytracer and 1, 2, 1, 0 of 4 in HelloVulkan.
C3_RegionCounts ==
  (pipelineCreated /\ app \in {"gltf", "raytracer"}) =>
    /\ regionCounts[1] = 1
    /\ regionCounts[1] + regionCounts[2] + regionCounts[3] + regionCounts[4]
         = Len(rayPipelineInfo.groups)
    /\ Len(rayPipelineInfo.groups) = Len(m_rtShaderGroups)
    /\ app = "raytracer" => regionCounts = <<1, 2, 2, 3>>
    /\ app = "gltf" => regionCounts = <<1, 2, 1, 0>>

\* both pipelines have been created and their tables built
C3_Witness ==
  /\ pipelineCreated
  /\ \/ app = "raytracer" /\ Len(m_rtShaderGroups) = 8 /\ Len(m_sbtWrapper.callable) = 3
     \/ app = "gltf" /\ Len(m_rtShaderGroups) = 4 /\ Len(m_sbtWrapper.callable) = 0

regionRank(r) ==
  IF r = "raygen" THEN 0 ELSE IF r = "miss" THEN 1 ELSE IF r = "hit" THEN 2
  ELSE IF r = "callable" THEN 3 ELSE 4

\* C4: the groups createRtPipeline declares come as raygen at index 0, then
\* the miss groups, then the hit groups, then the callable groups, so the
\* regions of the table, one after the other, list the groups as declared.
C4_ContiguousBlocks ==
  (pipelineCreated /\ app \in {"gltf", "raytracer"}) =>
    LET n == Len(rayPipelineInfo.groups)
    IN  /\ n > 0 /\ GroupRegion(rayPipelineInfo, 0) = "raygen"
        /\ \A g \in 1..(n - 1) : GroupRegion(rayPipelineInfo, g) # "raygen"
        /\ \A g, h \in 0..(n - 1) :
             g < h => regionRank(GroupRegion(rayPipelineInfo, g))
                        <= regionRank(GroupRegion(rayPipelineInfo, h))
        /\ \A g \in 0..(n - 1) : regionRank(GroupRegion(rayPipelineInfo, g)) < 4
        /\ m_sbtWrapper.raygen \o m_sbtWrapper.miss \o m_sbtWrapper.hit
             \o m_sbtWrapper.callable = [g \in 1..n |-> g - 1]

\* the Raytracer table with all four regions filled
C4_Witness ==
  /\ pipelineCreated /\ app = "raytracer"
  /\ m_sbtWrapper.miss = <<1, 2>> /\ m_sbtWrapper.hit = <<3, 4>>
  /\ m_sbtWrapper.callable = <<5, 6, 7>>

\* the shader group instance i of the TLAS selects, as a flat group index
hitGroupOf(inst) == At0(m_sbtWrapper.hit, inst.hitGroupId)

\* C5: every instance of the TLAS has a hit-group index below the number of
\* hit groups of the pipeline; the instances made from triangle meshes use hit
\* group 0, which is flat group 3, a triangles hit group, and the instance of
\* the implicit objects uses hit group 1, flat group 4, a procedural hit group.
C5_HitGroupIndices ==
  (pipelineCreated /\ app \in {"gltf", "raytracer"}) =>
    LET tlas == m_rtBuilder.tlasInstances
        nTri == IF app = "gltf" THEN Len(m_gltfScene.m_nodes) ELSE Len(instances)
    IN  \A i \in 1..Len(tlas) :
          /\ tlas[i].hitGroupId \in Indices0(m_sbtWrapper.hit)
          /\ i <= nTri =>
               /\ tlas[i].hitGroupId = 0
               /\ hitGroupOf(tlas[i]) = 3
               /\ At0(m_rtShaderGroups, 3).type = "TrianglesHitGroup"
          /\ i > nTri =>
               /\ tlas[i].hitGroupId = 1
               /\ hitGroupOf(tlas[i]) = 4
               /\ At0(m_rtShaderGroups, 4).type = "ProceduralHitGroup"
               /\ At0(m_rtShaderGroups, 4).intersectionShader # VK_SHADER_UNUSED_KHR

\* a Raytracer TLAS with a triangle instance and the procedural instance
C5_Witness ==
  /\ pipelineCreated /\ app = "raytracer"
  /\ Len(instances) >= 1 /\ implicitObj.objImpl # 0
  /\ Len(m_rtBuilder.tlasInstances) = Len(instances) + 1

---------------------------------------------------------------------------
\* Acceleration structure properties

blasBuilt == m_rtBuilder.nbBuildBlas > 0
tlasCalled == m_rtBuilder.nbBuildTlas > 0

\* C6: createBottomLevelAS hands buildBlas one input per input geometry, in
\* input order: input i is made of ObjModel i in Raytracer and of primitive
\* mesh i in HelloVulkan, and no other triangle input is in the list.
C6_OneBlasPerGeometry ==
  blasBuilt =>
    LET blas == m_rtBuilder.blas
        tri  == { i \in 1..Len(blas) : blas[i].geometryType = "triangles" }
    IN  /\ app = "raytracer" =>
             /\ tri = 1..Len(models)
             /\ \A i \in 1..Len(models) :
                  /\ blas[i].vertexData = models[i].vertexBuffer
                  /\ blas[i].indexData = models[i].indexBuffer
                  /\ blas[i].maxVertex = models[i].nbVertices
        /\ app = "gltf" =>
             /\ Len(blas) = Len(m_gltfScene.m_primMeshes)
             /\ tri = 1..Len(blas)
             /\ \A i \in 1..Len(blas) :
                  /\ blas[i].vertexData = m_gltfScene.vertexBuffer
                  /\ blas[i].indexData = m_gltfScene.indexBuffer
                  /\ blas[i].firstVertex = m_gltfScene.m_primMeshes[i].vertexOffset
                  /\ blas[i].primitiveOffset = 4 * m_gltfScene.m_primMeshes[i].firstIndex
                  /\ blas[i].maxVertex = m_gltfScene.m_primMeshes[i].vertexCount

\* two different models have become BLAS inputs 0 and 1
C6_Witness ==
  /\ app = "raytracer" /\ blasBuilt /\ Len(models) = 2
  /\ models[1] # models[2]
  /\ m_rtBuilder.blas[2].vertexData = models[2].vertexBuffer

\* C7: in Raytracer the implicit objects get a BLAS input exactly when there
\* are any; it is the last input, its index is the number of models and is
\* stored in implicitObj.blasId; createTopLevelAS adds exactly one instance
\* for them exactly when there are any, with that blasId and hit group 1.
C7_ImplicitBlasAndInstance ==
  (app = "raytracer" /\ blasBuilt) =>
    LET blas  == m_rtBuilder.blas
        aabbs == { i \in 1..Len(blas) : blas[i].geometryType = "aabbs" }
        tlas  == m_rtBuilder.tlasInstances
    IN  /\ implicitObj.objImpl = 0 => aabbs = {} /\ Len(blas) = Len(models)
        /\ implicitObj.objImpl # 0 =>
             /\ aabbs = {Len(blas)}
             /\ Len(blas) = Len(models) + 1
             /\ blas[Len(blas)].aabbData = implicitObj.implBuf
             /\ implicitObj.blasId = Len(models)
             /\ At0(blas, implicitObj.blasId).geometryType = "aabbs"
        /\ tlasCalled =>
             /\ Len(tlas) = Len(instances) + (IF implicitObj.objImpl # 0 THEN 1 ELSE 0)
             /\ implicitObj.objImpl # 0 =>
                  /\ tlas[Len(tlas)].blasId = implicitObj.blasId
                  /\ tlas[Len(tlas)].hitGroupId = 1
                  /\ tlas[Len(tlas)].transform = implicitObj.transform

\* implicit objects after two meshes: BLAS index 2 and an instance referring to it
C7_Witness ==
  /\ app = "raytracer" /\ tlasCalled /\ Len(models) = 2
  /\ implicitObj.objImpl # 0 /\ implicitObj.blasId = 2
  /\ m_rtBuilder.tlasInstances[Len(m_rtBuilder.tlasInstances)].blasId = 2

\* C8: the list handed to buildTlas has one instance per ObjInstance (scene
\* node in HelloVulkan), in input order, with that input's transform and
\* objIndex (primMesh) as BLAS index; the instance of the implicit objects
\* comes after them; createTopLevelAS issues one top-level build.
C8_OneInstancePerInput ==
  /\ m_rtBuilder.nbBuildTlas =
       IF pc \in {"createOffscreenRender", "createOffscreenRender_wait",
                  "updateSceneDescriptorSet", "createBottomLevelAS",
                  "createTopLevelAS"}
       THEN 0 ELSE 1
  /\ tlasCalled =>
       LET tlas == m_rtBuilder.tlasInstances
       IN  /\ app = "raytracer" =>
                /\ Len(tlas) \in {Len(instances), Len(instances) + 1}
                /\ \A i \in 1..Len(instances) :
                     /\ tlas[i].transform = instances[i].transform
                     /\ tlas[i].blasId = instances[i].objIndex
                /\ \A i \in 1..Len(tlas) :
                     tlas[i].hitGroupId = 1 => i = Len(tlas) /\ i > Len(instances)
           /\ app = "gltf" =>
                /\ Len(tlas) = Len(m_gltfScene.m_nodes)
                /\ \A i \in 1..Len(tlas) :
                     /\ tlas[i].transform = m_gltfScene.m_nodes[i].worldMatrix
                     /\ tlas[i].blasId = m_gltfScene.m_nodes[i].primMesh

\* two instances of different models, followed by the procedural instance
C8_Witness ==
  /\ app = "raytracer" /\ tlasCalled /\ Len(instances) = 2
  /\ instances[1].objIndex # instances[2].objIndex
  /\ Len(m_rtBuilder.tlasInstances) = 3
  /\ m_rtBuilder.tlasInstances[2].blasId = instances[2].objIndex

---------------------------------------------------------------------------
\* Setup order

\* C9: in ray_tracing_gltf and ray_tracing_ao the bottom-level build is done
\* before the top-level build is called, the TLAS handle written to a
\* descriptor set (createRtDescriptorSet, ao updateDescriptorSet) is read after
\* createTopLevelAS is done, and no dispatch is recorded before
\* createRtDescriptorSet and createRtPipeline are done.
C9_SetupOrder ==
  app \in {"gltf", "ao"} =>
    /\ pc = "createTopLevelAS" => blasBuilt
    /\ tlasCalled => blasBuilt
    /\ m_rtDescSet.allocated =>
         tlasCalled /\ m_rtDescSet.tlas = m_rtBuilder.tlas /\ m_rtDescSet.tlas # 0
    /\ app = "ao" /\ m_descSet.written =>
         tlasCalled /\ m_descSet.tlas = m_rtBuilder.tlas /\ m_descSet.tlas # 0
    /\ lastTrace.valid => m_rtDescSet.allocated /\ pipelineCreated

\* a dispatch of ray_tracing_gltf, after its whole setup
C9_Witness ==
  /\ app = "gltf" /\ lastTrace.valid /\ lastTrace.tlas = m_rtBuilder.tlas
  /\ m_rtDescSet.allocated /\ pipelineCreated /\ blasBuilt /\ tlasCalled

\* C10 as stated: createTopLevelAS with an instance whose BLAS index is no
\* index of a BLAS ends in an error: no TLAS is built from the list, the
\* program does not go on, and no dispatch follows.
C10_InvalidIndexFailsFast ==
  (tlasCalled /\ ~ValidInstances(m_rtBuilder, m_rtBuilder.tlasInstances)) =>
    /\ pc = "aborted"
    /\ m_rtBuilder.tlas = 0
    /\ ~lastTrace.valid
    /\ ~m_rtDescSet.allocated

---------------------------------------------------------------------------
\* Teardown properties

\* C11 as stated: destroy is idempotent, a second call of Raytracer::destroy
\* releases nothing again: no handle is handed to a destroy call twice.
C11_NoHandleReleasedTwice ==
  \A h \in Handles : released[h] <= 1

---------------------------------------------------------------------------
\* Descriptor set properties

\* C12: a call of updateRtDescriptorSet leaves binding 1 holding the image
\* view passed and changes no other binding (the TLAS, the primitive lookup),
\* and a second call in a row with the same image view leaves the descriptor
\* set as the first call left it.
C12_UpdateRtDescriptorSetIdempotent ==
  [][ nbSameImageWrites' # nbSameImageWrites =>
        /\ m_rtDescSet'.image = m_offscreenColor'.image
        /\ m_rtDescSet'.tlas = m_rtDescSet.tlas
        /\ m_rtDescSet'.primInfo = m_rtDescSet.primInfo
        /\ m_rtDescSet'.allocated = m_rtDescSet.allocated
        /\ nbSameImageWrites' >= 2 => m_rtDescSet' = m_rtDescSet ]_vars

\* updateRtDescriptorSet has been called twice in a row with one image view
C12_Witness ==
  /\ app = "raytracer" /\ nbSameImageWrites = 2
  /\ m_rtDescSet.allocated /\ m_rtDescSet.image = m_offscreenColor.image
  /\ m_rtDescSet.tlas # 0

---------------------------------------------------------------------------
\* Dispatch properties

\* a step that records a traceRaysKHR command
dispatchStep == lastTrace' # lastTrace

\* C13: every dispatch gives traceRaysKHR the regions of the shader binding
\* table in the order raygen, miss, hit, callable and the grid (width,
\* height, 1) of the output extent current at that dispatch: 640 x 480 x 1
\* at first, the new extent after a resize.
C13_TraceRegionsAndGrid ==
  [][ dispatchStep =>
        /\ lastTrace'.regions = << m_sbtWrapper.raygen, m_sbtWrapper.miss,
                                   m_sbtWrapper.hit, m_sbtWrapper.callable >>
        /\ lastTrace'.regions[1] = <<0>>
        /\ lastTrace'.grid = <<m_size[1], m_size[2], 1>>
        /\ m_offscreenColor.image = 1 =>
             lastTrace'.grid = <<SAMPLE_WIDTH, SAMPLE_HEIGHT, 1>> ]_vars

\* a dispatch after a resize to a new extent, with that extent as its grid
C13_Witness ==
  /\ lastTrace.valid /\ m_offscreenColor.image > 1
  /\ lastTrace.size = m_size /\ m_size # <<SAMPLE_WIDTH, SAMPLE_HEIGHT>>
  /\ lastTrace.grid = <<800, 600, 1>>

\* a step of the ray_tracing_gltf frame loop that records the scene rendering
frameStep ==
  app = "gltf" /\ (offscreenWriter' # offscreenWriter \/ lastTrace' # lastTrace)

\* C14: a frame of ray_tracing_gltf records exactly one writer of the
\* offscreen image, raytrace when useRaytracer is set and rasterize when it
\* is not: a trace is recorded in the frame exactly when useRaytracer is set.
C14_OneWriterPerFrame ==
  [][ frameStep =>
        /\ offscreenWriter' = IF useRaytracer THEN "raytrace" ELSE "rasterize"
        /\ useRaytracer <=> lastTrace' # lastTrace
        /\ useRaytracer' = useRaytracer ]_vars

\* a rasterized frame after a ray traced one
C14_Witness ==
  /\ app = "gltf" /\ ~useRaytracer
  /\ offscreenWriter = "rasterize" /\ lastTrace.valid

\* C15 as stated: at every dispatch, whatever calls of createTopLevelAS,
\* createRtDescriptorSet, updateRtDescriptorSet and raytrace came before,
\* binding 0 of the ray tracing descriptor set holds the TLAS built last.
C15_DispatchUsesLatestTlas ==
  [][ dispatchStep => lastTrace'.tlas = getAccelerationStructure(m_rtBuilder) ]_vars

\* C16: at every dispatch of ray_tracing_gltf, after any resizes, binding 1 of
\* the ray tracing descriptor set refers to the offscreen colour image the
\* last createOffscreenRender created, not to a destroyed one, and the extent
\* of that image is the width and height of the trace grid.
C16_DispatchWritesCurrentImage ==
  [][ (app = "gltf" /\ dispatchStep) =>
        /\ lastTrace'.image = m_offscreenColor.image
        /\ lastTrace'.image # 0
        /\ lastTrace'.imageExtent = m_offscreenColor.extent
        /\ lastTrace'.grid = <<lastTrace'.imageExtent[1], lastTrace'.imageExtent[2], 1>> ]_vars

\* a dispatch after a resize, into the image the resize created
C16_Witness ==
  /\ app = "gltf" /\ lastTrace.valid
  /\ lastTrace.image = m_offscreenColor.image /\ lastTrace.image >= 2
  /\ lastTrace.imageExtent = <<800, 600>> /\ m_rtDescSet.image = lastTrace.image

---------------------------------------------------------------------------
\* Pipeline layout properties

\* C17 as stated: every pipeline createRtPipeline builds has exactly one
\* push-constant range, and that range and the stage mask of the push at a
\* dispatch both cover the raygen, closest-hit, miss and callable stages.
C17_RangeCoversFourStages ==
  (pipelineCreated /\ app \in {"gltf", "raytracer"}) =>
    /\ Len(m_rtPipeline.pushConstantRanges) = 1
    /\ {"raygen", "closestHit", "miss", "callable"}
         \subseteq m_rtPipeline.pushConstantRanges[1].stageFlags
    /\ lastTrace.valid =>
         {"raygen", "closestHit", "miss", "callable"} \subseteq lastTrace.pushStages

\* C17: every pipeline createRtPipeline builds has exactly one push-constant
\* range; in Raytracer it covers raygen, closest-hit, miss and callable, in
\* HelloVulkan of ray_tracing_gltf, whose pipeline has no callable stage, it
\* covers raygen, closest-hit and miss only; in both the stage mask of the
\* push at a dispatch is the mask of that range.
C17_RangeAndPushAgree ==
  (pipelineCreated /\ app \in {"gltf", "raytracer"}) =>
    /\ Len(m_rtPipeline.pushConstantRanges) = 1
    /\ m_rtPipeline.pushConstantRanges[1].offset = 0
    /\ m_rtPipeline.pushConstantRanges[1].stageFlags =
         IF app = "raytracer" THEN {"raygen", "closestHit", "miss", "callable"}
         ELSE {"raygen", "closestHit", "miss"}
    /\ lastTrace.valid =>
         lastTrace.pushStages = m_rtPipeline.pushConstantRanges[1].stageFlags

\* a dispatch of ray_tracing_gltf whose push does not reach a callable stage
C17_Witness ==
  /\ app = "gltf" /\ pipelineCreated /\ lastTrace.valid
  /\ "callable" \notin lastTrace.pushStages
  /\ "callable" \notin m_rtPipeline.pushConstantRanges[1].stageFlags

\* positions of the log where op is applied to module
logPositions(log, op, module) ==
  { i \in 1..Len(log) : log[i].op = op /\ log[i].module = module }

\* C18: every shader module createRtPipeline creates, and so every module a
\* stage of rayPipelineInfo refers to, is destroyed exactly once before the
\* function returns, after the pipeline was created and after the shader
\* binding table was built; the pipeline is created from live modules.
C18_ShaderModulesTransient ==
  (pipelineCreated /\ app \in {"gltf", "raytracer"}) =>
    LET log     == m_rtPipeline.log
        created == { log[i].module : i \in { j \in 1..Len(log) :
                                               log[j].op = "createShaderModule" } }
        staged  == { rayPipelineInfo.stages[i].module :
                       i \in 1..Len(rayPipelineInfo.stages) }
        pipe    == logPositions(log, "createRayTracingPipelineKHR", "")
        sbt     == logPositions(log, "m_sbtWrapper.create", "")
    IN  /\ staged = created
        /\ Cardinality(pipe) = 1 /\ Cardinality(sbt) = 1
        /\ \A m \in created :
             /\ Cardinality(logPositions(log, "createShaderModule", m)) = 1
             /\ Cardinality(logPositions(log, "destroy", m)) = 1
             /\ \A c \in logPositions(log, "createShaderModule", m),
                   d \in logPositions(log, "destroy", m), i \in pipe, j \in sbt :
                  c < i /\ i < j /\ j < d
        /\ \A i \in 1..Len(log) : log[i].op = "destroy" => log[i].module \in created

\* the Raytracer pipeline: eleven modules created and, last of all, destroyed
C18_Witness ==
  /\ app = "raytracer" /\ pipelineCreated
  /\ Len(rayPipelineInfo.stages) = 11 /\ Len(m_rtPipeline.log) = 24
  /\ m_rtPipeline.log[24] = [op |-> "destroy", module |-> "call2"]

---------------------------------------------------------------------------
\* Shader group properties

\* the slots of a shader group and the stage kind each refers to
groupSlots ==
  { <<"generalShader", "general">>, <<"closestHitShader", "closestHit">>,
    <<"anyHitShader", "anyHit">>, <<"intersectionShader", "intersection">> }

slotValue(grp, slot) ==
  IF slot = "generalShader" THEN grp.generalShader
  ELSE IF slot = "closestHitShader" THEN grp.closestHitShader
  ELSE IF slot = "anyHitShader" THEN grp.anyHitShader
  ELSE grp.intersectionShader

slotSet(grp, slot) == slotValue(grp, slot) # VK_SHADER_UNUSED_KHR

\* C19: of the groups createRtPipeline assembles, a general group has only its
\* general slot set, to a raygen, miss or callable stage; a triangles hit
\* group has its closest-hit slot set and no general or intersection slot; a
\* procedural hit group has its closest-hit and intersection slots set and no
\* general slot.  A set slot is the index of a stage of the slot's kind, and
\* every stage is referred to by exactly one slot of one group.
C19_GroupSlots ==
  (pipelineCreated /\ app \in {"gltf", "raytracer"}) =>
    LET stages == rayPipelineInfo.stages
        groups == rayPipelineInfo.groups
    IN  /\ \A g \in 1..Len(groups) :
             LET grp == groups[g]
             IN  /\ grp.type \in {"General", "TrianglesHitGroup", "ProceduralHitGroup"}
                 /\ grp.type = "General" =>
                      /\ slotSet(grp, "generalShader")
                      /\ ~slotSet(grp, "closestHitShader")
                      /\ ~slotSet(grp, "anyHitShader")
                      /\ ~slotSet(grp, "intersectionShader")
                 /\ grp.type = "TrianglesHitGroup" =>
                      /\ ~slotSet(grp, "generalShader")
                      /\ slotSet(grp, "closestHitShader")
                      /\ ~slotSet(grp, "intersectionShader")
                 /\ grp.type = "ProceduralHitGroup" =>
                      /\ ~slotSet(grp, "generalShader")
                      /\ slotSet(grp, "closestHitShader")
                      /\ slotSet(grp, "intersectionShader")
                 /\ \A sl \in groupSlots :
                      slotSet(grp, sl[1]) =>
                        /\ slotValue(grp, sl[1]) \in Indices0(stages)
                        /\ LET kind == At0(stages, slotValue(grp, sl[1])).stage
                           IN  IF sl[2] = "general"
                               THEN kind \in {"raygen", "miss", "callable"}
                               ELSE kind = sl[2]
        /\ \A i \in Indices0(stages) :
             Cardinality({ <<g, sl>> \in (1..Len(groups)) \X groupSlots :
                             slotValue(groups[g], sl[1]) = i }) = 1

\* the Raytracer groups: a triangles hit group with an any-hit slot and a
\* procedural hit group with closest-hit, any-hit and intersection slots
C19_Witness ==
  /\ app = "raytracer" /\ pipelineCreated /\ Len(rayPipelineInfo.groups) = 8
  /\ slotValue(rayPipelineInfo.groups[4], "anyHitShader") = 4
  /\ rayPipelineInfo.groups[5].type = "ProceduralHitGroup"
  /\ slotValue(rayPipelineInfo.groups[5], "intersectionShader") = 7

---------------------------------------------------------------------------
\* Geometry adapter properties

\* n is the integer quotient of m by 3
thirdOf(n, m) == 3 * n <= m /\ m < 3 * n + 3

\* C20: the build range of every triangle mesh has as primitive count the
\* integer quotient of the index count by 3, also when the index count is no
\* multiple of 3, and transform offset 0; the build range of the implicit
\* objects has as primitive count the number of bounding boxes.
C20_PrimitiveCounts ==
  blasBuilt =>
    LET blas == m_rtBuilder.blas
    IN  /\ app = "raytracer" =>
             /\ \A i \in 1..Len(models) :
                  /\ thirdOf(blas[i].primitiveCount, models[i].nbIndices)
                  /\ blas[i].transformOffset = 0
             /\ implicitObj.objImpl # 0 =>
                  /\ blas[Len(blas)].geometryType = "aabbs"
                  /\ blas[Len(blas)].primitiveCount = implicitObj.objImpl
        /\ app = "gltf" =>
             \A i \in 1..Len(blas) :
               /\ thirdOf(blas[i].primitiveCount, m_gltfScene.m_primMeshes[i].indexCount)
               /\ blas[i].transformOffset = 0

\* a mesh of 7 indices built as 2 triangles, next to 10 bounding boxes
C20_Witness ==
  /\ app = "raytracer" /\ blasBuilt /\ Len(models) >= 1
  /\ models[1].nbIndices = 7 /\ m_rtBuilder.blas[1].primitiveCount = 2
  /\ implicitObj.objImpl = 10
  /\ m_rtBuilder.blas[Len(m_rtBuilder.blas)].primitiveCount = 10

---------------------------------------------------------------------------
\* Error handling of the ray_tracing_ao render loop

\* C21: in ray_tracing_ao, once a system error was raised while a frame was
\* recorded or submitted, the diagnostic is printed, main has returned the
\* code of the error, which is not 0, and no further frame is recorded or
\* submitted and no other statement of main runs.
C21_ErrorEndsLoop ==
  /\ [](app = "ao" /\ mainResult.diagnostic =>
          /\ mainResult.returned /\ pc = "returned"
          /\ mainResult.code = mainResult.error /\ mainResult.code # 0)
  /\ [][ (app = "ao" /\ mainResult.diagnostic) =>
            /\ nbSubmitted' = nbSubmitted /\ offscreenWriter' = offscreenWriter
            /\ teardownLog' = teardownLog /\ mainResult' = mainResult ]_vars

\* a device-lost error ended the loop after a frame had been submitted
C21_Witness ==
  /\ app = "ao" /\ pc = "returned" /\ nbSubmitted > 0
  /\ mainResult.diagnostic /\ mainResult.code = -4

---------------------------------------------------------------------------
\* Order of the statements of a dispatch

\* the positions of a statement in the command log of the last raytrace
cmdPositions(cmd) == { i \in 1..Len(cmdBuf) : cmdBuf[i].cmd = cmd }
cmdAt(cmd) == cmdBuf[CHOOSE i \in cmdPositions(cmd) : TRUE]

\* the set layout a descriptor set of HelloVulkan was allocated from
layoutOf(set) == IF set = "m_rtDescSet" THEN "m_rtDescSetLayout" ELSE "m_descSetLayout"

\* C22: every raytrace of HelloVulkan runs updateFrame, fills the constants,
\* binds the pipeline, binds the sets (ray tracing set at index 0, scene set at
\* index 1, the order of the set layouts of the pipeline layout), pushes the
\* constants and traces, in this order; the frame pushed is the counter that
\* this dispatch's updateFrame produced.
C22_DispatchStatementOrder ==
  [][ gltfStep =>
        /\ \A c \in { "updateFrame", "setConstants", "bindPipeline",
                       "bindDescriptorSets", "pushConstants", "traceRaysKHR" } :
              Cardinality(cmdPositions(c)') = 1
        /\ \A i \in 1..(Len(cmdBuf') - 1) :
              << cmdBuf'[i].cmd, cmdBuf'[i + 1].cmd >> \in
                { <<"updateFrame", "setConstants">>, <<"setConstants", "bindPipeline">>,
                  <<"bindPipeline", "bindDescriptorSets">>,
                  <<"bindDescriptorSets", "pushConstants">>,
                  <<"pushConstants", "traceRaysKHR">> }
        /\ cmdAt("bindDescriptorSets")'.sets = <<"m_rtDescSet", "m_descSet">>
        /\ [i \in 1..2 |-> layoutOf(cmdAt("bindDescriptorSets")'.sets[i])]
             = m_rtPipeline.setLayouts
        /\ cmdAt("pushConstants")'.frame = cmdAt("updateFrame")'.frame
        /\ lastTrace'.frame = m_rtPushConstants'.frame
        /\ m_rtPushConstants'.frame =
             updateFrame(refCam, CameraManip, m_rtPushConstants).pushC.frame ]_vars

\* a dispatch pushed a frame greater than 0 with the two sets bound
C22_Witness ==
  /\ app = "gltf" /\ lastTrace.valid /\ lastTrace.frame = 2
  /\ Len(cmdBuf) = 6 /\ cmdBuf[5] = Cmd("pushConstants", 2, <<>>)

---------------------------------------------------------------------------
\* Accumulation after a reset

\* a step that records the dispatch of ray_tracing_ao: the command log or the
\* reference camera changes, or the pending reset is taken up
aoDispatch ==
  /\ app = "ao"
  /\ cmdBuf' # cmdBuf \/ refCam' # refCam \/ (resetSinceTrace /\ ~resetSinceTrace')

\* the frame counter pushed by the dispatch whose commands are buf
pushedFrame(buf) ==
  buf[CHOOSE i \in 1..Len(buf) : buf[i].cmd = "pushConstants"].frame

\* C23: the first dispatch after resetFrame ran (through onResize in
\* ray_tracing_gltf, called by main() for a changed ambient-occlusion control in
\* ray_tracing_ao) pushes the sentinel plus 1, which is 0, and every later
\* dispatch with the camera of the dispatch before it and no reset in between
\* pushes the frame pushed before plus 1: the frames pushed are 0, 1, 2, 3, ...
C23_CountsUpFromSentinel ==
  [][ /\ (gltfStep /\ resetSinceTrace) =>
            /\ m_rtPushConstants.frame = ResetFrameValue
            /\ lastTrace'.frame = ResetFrameValue + 1
            /\ lastTrace'.frame = 0
      /\ (gltfDispatch /\ ~resetSinceTrace /\ CameraManip = lastTrace.cam) =>
            /\ lastTrace'.frame = lastTrace.frame + 1
            /\ lastTrace'.frame >= 1
      /\ (aoDispatch /\ resetSinceTrace) =>
            /\ m_rtPushConstants.frame = ResetFrameValue
            /\ pushedFrame(cmdBuf') = ResetFrameValue + 1
            /\ pushedFrame(cmdBuf') = 0
      /\ (aoDispatch /\ ~resetSinceTrace /\ cmdBuf # <<>>
            /\ CameraManip = [matrix |-> refCam.matrix, fov |-> refCam.fov]) =>
            /\ pushedFrame(cmdBuf') = pushedFrame(cmdBuf) + 1
            /\ pushedFrame(cmdBuf') >= 1 ]_vars

\* ray_tracing_ao accumulated, an ambient-occlusion control changed, and the
\* second dispatch after the resetFrame, the camera unchanged, pushed 1
C23_Witness ==
  /\ app = "ao" /\ pc = "loop" /\ nbSubmitted = 3
  /\ samplesSinceReset.valid /\ samplesSinceReset.n = 2 /\ ~resetSinceTrace
  /\ cmdBuf # <<>> /\ pushedFrame(cmdBuf) = 1
  /\ m_rtPushConstants.frame = 1

---------------------------------------------------------------------------
\* The reference camera of updateFrame

\* C24: in ray_tracing_gltf the camera matrix and fov recorded by updateFrame
\* are those of the most recent dispatch, whatever happened to the camera in
\* frames drawn by the rasterizer; so a dispatch with no reset since the one
\* before restarts the accumulation exactly when its camera differs from the
\* camera of the dispatch before.
C24_ReferenceIsLastDispatchCamera ==
  /\ [](app = "gltf" /\ lastTrace.valid =>
          /\ refCam.init
          /\ refCam.matrix = lastTrace.cam.matrix
          /\ refCam.fov = lastTrace.cam.fov)
  /\ [][ (gltfDispatch /\ ~resetSinceTrace) =>
            /\ (CameraManip # lastTrace.cam) => lastTrace'.frame = ResetFrameValue + 1
            /\ (CameraManip = lastTrace.cam) => lastTrace'.frame = lastTrace.frame + 1
            /\ refCam'.matrix = CameraManip.matrix /\ refCam'.fov = CameraManip.fov ]_vars

\* the camera moved while the rasterizer drew the frames and the ray tracer is
\* selected again: the reference is still the camera of the last dispatch
C24_Witness ==
  /\ app = "gltf" /\ pc = "loop" /\ lastTrace.valid /\ lastTrace.frame >= 1
  /\ offscreenWriter = "rasterize" /\ useRaytracer
  /\ CameraManip # lastTrace.cam
  /\ refCam.matrix = lastTrace.cam.matrix /\ refCam.fov = lastTrace.cam.fov

---------------------------------------------------------------------------
\* Order of the statements of a teardown

\* the positions of the statements of the last teardown that release obj
stmtPositions(obj) == { i \in 1..Len(teardownLog) : teardownLog[i].obj = obj }

\* the positions of the statements of the last teardown of kind op
opPositions(op) == { i \in 1..Len(teardownLog) : teardownLog[i].op = op }

\* each pipeline with its layout
PipelineLayouts ==
  { <<"m_graphicsPipeline", "m_pipelineLayout">>,
    <<"m_postPipeline", "m_postPipelineLayout">>,
    <<"m_rtPipeline", "m_rtPipelineLayout">> }

\* C25: in every teardown each pipeline is destroyed before its layout and
\* everything the allocator or an allocator-backed helper owns is destroyed
\* before the allocator is de-initialised; in the two main() the first
\* statements of the teardown are the end of the loop and waitIdle, before
\* any destroy.
C25_TeardownOrder ==
  teardownLog # <<>> =>
    /\ \A pl \in PipelineLayouts :
         \A i \in stmtPositions(pl[1]), j \in stmtPositions(pl[2]) : i < j
    /\ \A i \in opPositions("alloc") \cup opPositions("owner"),
          j \in opPositions("deinit") : i < j
    /\ app \in {"gltf", "ao"} =>
         /\ teardownLog[1].op = "loopEnd" /\ teardownLog[2].op = "waitIdle"
         /\ opPositions("loopEnd") = {1} /\ opPositions("waitIdle") = {2}
         /\ pc = "done" /\ mainResult = ReturnedZero
    /\ app = "gltf" =>
         /\ \A pl \in PipelineLayouts :
              stmtPositions(pl[1]) # {} /\ stmtPositions(pl[2]) # {}
         /\ Cardinality(opPositions("deinit")) = 1
    /\ app = "raytracer" =>
         /\ stmtPositions("m_rtPipeline") # {} /\ stmtPositions("m_rtPipelineLayout") # {}
         /\ opPositions("deinit") = {}

\* ray_tracing_gltf has torn down: the allocator was de-initialised last
C25_Witness ==
  /\ app = "gltf" /\ pc = "done" /\ lastTrace.valid
  /\ teardownLog # <<>>
  /\ teardownLog[Len(teardownLog) - 2] = Stmt("deinit", "m_alloc")

---------------------------------------------------------------------------
\* Repeated pipeline creation

\* the groups of the create info whose only stage is a raygen shader
raygenGroups ==
  { g \in Indices0(rayPipelineInfo.groups) : GroupRegion(rayPipelineInfo, g) = "raygen" }

\* C26: after one or more createRtPipeline calls the groups handed to the
\* pipeline and to the shader binding table are those of the first call: 8 in
\* Raytracer and 4 in HelloVulkan, exactly one of them a raygen group, every
\* stage index of a group smaller than the number of stages of the call.
C26_GroupsOfFirstCall ==
  pipelineCreated =>
    /\ Len(rayPipelineInfo.groups) = IF app = "raytracer" THEN 8 ELSE 4
    /\ m_rtShaderGroups = rayPipelineInfo.groups
    /\ Cardinality(raygenGroups) = 1
    /\ \A g \in Indices0(rayPipelineInfo.groups), slot \in groupSlots :
         slotSet(At0(rayPipelineInfo.groups, g), slot) =>
           slotValue(At0(rayPipelineInfo.groups, g), slot) \in Indices0(rayPipelineInfo.stages)

---------------------------------------------------------------------------
\* Sign of the frame pushed

\* C27: in ray_tracing_gltf the frame a dispatch pushes is 0 or more, never
\* the value resetFrame stores, whatever dispatches, camera changes and
\* resizes came before; the first dispatch of the run pushes 0.
C27_PushedFrameNotNegative ==
  /\ [](app = "gltf" /\ lastTrace.valid =>
          /\ lastTrace.frame >= 0 /\ lastTrace.frame # ResetFrameValue
          /\ cmdAt("pushConstants").frame = lastTrace.frame)
  /\ [][ (gltfStep /\ ~lastTrace.valid) => lastTrace'.frame = 0 ]_vars

\* a dispatch after a camera change that followed a resize pushed 0
C27_Witness ==
  /\ app = "gltf" /\ lastTrace.valid /\ lastTrace.camChanged
  /\ m_offscreenColor.image = 2 /\ lastTrace.image = 2
  /\ lastTrace.frame = 0 /\ m_rtPushConstants.frame = 0

---------------------------------------------------------------------------
\* Custom indices of the instances

\* C30: in the instance list Raytracer::createTopLevelAS hands to the builder
\* (every blasId a BLAS that was built) no two instances have the same custom
\* index: the custom index of the procedural instance, its BLAS id, is not the
\* custom index i of a triangle instance.
C30_CustomIndicesDistinct ==
  (app = "raytracer" /\ tlasCalled
     /\ ValidInstances(m_rtBuilder, m_rtBuilder.tlasInstances)) =>
    \A i, j \in 1..Len(m_rtBuilder.tlasInstances) :
      i # j => m_rtBuilder.tlasInstances[i].instanceCustomId
                 # m_rtBuilder.tlasInstances[j].instanceCustomId

---------------------------------------------------------------------------
\* Snapshot of the offscreen image

\* C28: when upload_image reads the copy image, the device has finished the
\* vkCmdCopyImage that snapshot recorded in the command buffer of that frame.
C28_HostReadsAfterCopy ==
  hostRead.valid => hostRead.copy = "done"

\* C29: for every row y of the image upload_image writes inside img:
\* y * pitch + pitch <= width * height * 4, with pitch = rowPitch / sizeof(float),
\* for the tightly packed row pitch and for every larger one.
C29_WritesInsideImg ==
  uploaded.valid =>
    /\ \A y \in 0..(uploaded.height - 1) :
         y * uploaded.pitch + uploaded.pitch <= uploaded.imgSize
    /\ uploaded.lastEnd <= uploaded.imgSize

====
